---- MODULE Spec2Model ----
(***************************************************************************)
(* Model of the exfat-fs formatter (geometry solver, boot region, FAT,     *)
(* bitmap, up-case table, root directory) and of the root opener that      *)
(* reads the image back.                                                   *)
(*                                                                         *)
(* Rust's u64/u32 values do not fit the integers of the model checker, so  *)
(* an unsigned integer is a tuple of NLIMBS limbs of 12 bits, least        *)
(* significant limb first (72 bits, enough for any u64 and for one carry). *)
(***************************************************************************)
EXTENDS Integers, Sequences, FiniteSets, TLC

LIMB == 2^12
NLIMBS == 72 \div 12

\* ------------------------------------------------------------------------
\* Unsigned wide integers
\* ------------------------------------------------------------------------

\* the wide integer of a model integer 0 <= n < 2^31
Big(n) == <<n % LIMB, (n \div LIMB) % LIMB, n \div (LIMB * LIMB), 0, 0, 0>>

\* 2^k for 0 <= k < 72
BigPow2(k) ==
    LET q == k \div 12
        v == 2^(k % 12)
    IN  <<IF q = 0 THEN v ELSE 0, IF q = 1 THEN v ELSE 0, IF q = 2 THEN v ELSE 0,
          IF q = 3 THEN v ELSE 0, IF q = 4 THEN v ELSE 0, IF q = 5 THEN v ELSE 0>>


\* the model integer of a wide integer below 2^31
ToInt(a) == a[1] + a[2] * LIMB + a[3] * LIMB * LIMB

\* a + b modulo 2^72
BAdd(a, b) ==
    LET s1 == a[1] + b[1]
        s2 == a[2] + b[2] + s1 \div LIMB
        s3 == a[3] + b[3] + s2 \div LIMB
        s4 == a[4] + b[4] + s3 \div LIMB
        s5 == a[5] + b[5] + s4 \div LIMB
        s6 == a[6] + b[6] + s5 \div LIMB
    IN  <<s1 % LIMB, s2 % LIMB, s3 % LIMB, s4 % LIMB, s5 % LIMB, s6 % LIMB>>

\* a - b modulo 2^72 (the exact difference when a >= b)
BSub(a, b) ==
    LET d1 == a[1] - b[1] + LIMB
        d2 == a[2] - b[2] + LIMB - (IF d1 < LIMB THEN 1 ELSE 0)
        d3 == a[3] - b[3] + LIMB - (IF d2 < LIMB THEN 1 ELSE 0)
        d4 == a[4] - b[4] + LIMB - (IF d3 < LIMB THEN 1 ELSE 0)
        d5 == a[5] - b[5] + LIMB - (IF d4 < LIMB THEN 1 ELSE 0)
        d6 == a[6] - b[6] + LIMB - (IF d5 < LIMB THEN 1 ELSE 0)
    IN  <<d1 % LIMB, d2 % LIMB, d3 % LIMB, d4 % LIMB, d5 % LIMB, d6 % LIMB>>

BLt(a, b) ==
    IF a[6] # b[6] THEN a[6] < b[6]
    ELSE IF a[5] # b[5] THEN a[5] < b[5]
    ELSE IF a[4] # b[4] THEN a[4] < b[4]
    ELSE IF a[3] # b[3] THEN a[3] < b[3]
    ELSE IF a[2] # b[2] THEN a[2] < b[2]
    ELSE a[1] < b[1]

BLe(a, b) == ~BLt(b, a)
BMin(a, b) == IF BLe(a, b) THEN a ELSE b

\* a * m modulo 2^72 for a model integer 0 <= m < 2^18
BMulS(a, m) ==
    LET p1 == a[1] * m
        p2 == a[2] * m + p1 \div LIMB
        p3 == a[3] * m + p2 \div LIMB
        p4 == a[4] * m + p3 \div LIMB
        p5 == a[5] * m + p4 \div LIMB
        p6 == a[6] * m + p5 \div LIMB
    IN  <<p1 % LIMB, p2 % LIMB, p3 % LIMB, p4 % LIMB, p5 % LIMB, p6 % LIMB>>

\* a / d and a % d for a model integer 0 < d < 2^18 (long division)
BDivS(a, d) ==
    LET c6 == a[6]
        c5 == (c6 % d) * LIMB + a[5]
        c4 == (c5 % d) * LIMB + a[4]
        c3 == (c4 % d) * LIMB + a[3]
        c2 == (c3 % d) * LIMB + a[2]
        c1 == (c2 % d) * LIMB + a[1]
    IN  <<c1 \div d, c2 \div d, c3 \div d, c4 \div d, c5 \div d, c6 \div d>>

BModS(a, d) ==
    LET c6 == a[6]
        c5 == (c6 % d) * LIMB + a[5]
        c4 == (c5 % d) * LIMB + a[4]
        c3 == (c4 % d) * LIMB + a[3]
        c2 == (c3 % d) * LIMB + a[2]
        c1 == (c2 % d) * LIMB + a[1]
    IN  c1 % d

\* limb i of a, zero outside 1..NLIMBS
LimbAt(a, i) == IF i >= 1 /\ i <= NLIMBS THEN a[i] ELSE 0

\* a >> k, a << k (modulo 2^72), a mod 2^k
BShr(a, k) ==
    LET q == k \div 12
    IN  BDivS(<<LimbAt(a, 1+q), LimbAt(a, 2+q), LimbAt(a, 3+q),
                LimbAt(a, 4+q), LimbAt(a, 5+q), LimbAt(a, 6+q)>>, 2^(k % 12))

BShl(a, k) ==
    LET q == k \div 12
        x == BMulS(a, 2^(k % 12))
    IN  <<LimbAt(x, 1-q), LimbAt(x, 2-q), LimbAt(x, 3-q),
          LimbAt(x, 4-q), LimbAt(x, 5-q), LimbAt(x, 6-q)>>

MaskLimb(a, i, k) ==
    IF i - 1 < k \div 12 THEN a[i]
    ELSE IF i - 1 = k \div 12 THEN a[i] % (2^(k % 12))
    ELSE 0

BLowBits(a, k) ==
    <<MaskLimb(a, 1, k), MaskLimb(a, 2, k), MaskLimb(a, 3, k),
      MaskLimb(a, 4, k), MaskLimb(a, 5, k), MaskLimb(a, 6, k)>>

BZero == Big(0)
U64_MAX == BSub(BigPow2(64), Big(1))
U32_MAX == BSub(BigPow2(32), Big(1))
FitsU64(a) == BLe(a, U64_MAX)
FitsU32(a) == BLe(a, U32_MAX)

ILog2(a) == CHOOSE k \in 0..71 : BLe(BigPow2(k), a) /\ (k = 71 \/ BLt(a, BigPow2(k+1)))


\* ------------------------------------------------------------------------
\* Program constants
\* ------------------------------------------------------------------------
KB == 1024
DEFAULT_BOUNDARY_ALIGNEMENT == BigPow2(20)
FIRST_USABLE_CLUSTER_INDEX == 2
MAX_CLUSTER_COUNT == BSub(BigPow2(32), Big(11))        \* 0xFFFFFFF5
MAX_CLUSTER_SIZE == 32 * 1024 * KB
UPCASE_TABLE_SIZE_BYTES == 5836
MAIN_BOOT_OFFSET == 0
BACKUP_BOOT_OFFSET == 12
EXTENDED_BOOT == 8
DRIVE_SELECT == 128
DIR_ENTRY_SIZE == 32

IsPow2Int(n) == \E k \in 0..30 : n = 2^k
ILog2Int(n) == CHOOSE k \in 0..30 : 2^k <= n /\ (k = 30 \/ n < 2^(k+1))

\* u64::next_multiple_of / u32::next_multiple_of, before the width is applied:
\* x when x % rhs = 0, else x + (rhs - x % rhs)
\* x % rhs is taken for the right-hand sides that occur: below 2^18, or a
\* power of two
NextMultipleOf(x, rhs) ==
    LET RoundUp(r) == IF r = BZero THEN x ELSE BAdd(x, BSub(rhs, r))
    IN  RoundUp(IF rhs[3] = 0 /\ rhs[4] = 0 /\ rhs[5] = 0 /\ rhs[6] = 0 /\ ToInt(rhs) < 2^18
                THEN Big(BModS(x, ToInt(rhs)))
                ELSE BLowBits(x, ILog2(rhs)))

\* `x as u32`
AsU32(x) == BLowBits(x, 32)
\* a result of unchecked u64 / u32 arithmetic in a build without overflow checks
WrapU64(x) == BLowBits(x, 64)
WrapU32(x) == BLowBits(x, 32)

\* default cluster size based on the size of the device
default_cluster_size(size) ==
    IF BLe(size, BigPow2(28)) THEN 4 * KB
    ELSE IF BLe(size, BigPow2(35)) THEN 32 * KB
    ELSE 128 * KB

Err(kind) == [status |-> "Err", kind |-> kind]
Panic(at) == [status |-> "Panic", at |-> at]

\* FormatVolumeOptionsBuilder::validate on the two validated fields: "Ok" or
\* the message of the Err(String) it returns
validate(bytes_per_sector, boundary_align) ==
    IF ~IsPow2Int(bytes_per_sector) \/ ~(512 <= bytes_per_sector /\ bytes_per_sector <= 4096)
    THEN "Bytes per sector field must be a power of two and between 512 and 4096."
    ELSE IF ~(\E k \in 0..71 : boundary_align = BigPow2(k))
    THEN "Boundary alignment field must be a power of two."
    ELSE "Ok"

\* ------------------------------------------------------------------------
\* Exfat::try_from (format/mod.rs), in the order of its statements.  A part
\* takes the values computed so far (status "Go") and adds its own, or ends
\* the function with an error or a panic.  overflow checks: whether unchecked
\* arithmetic panics on overflow (debug profile) or wraps (release profile).
\* ------------------------------------------------------------------------

\* cluster size, partition offset in sectors, shifts, volume length
SolveSizes(o) ==
    LET bps == o.bytes_per_sector
        bytes_per_cluster == default_cluster_size(o.dev_size)
    IN  IF ~IsPow2Int(bytes_per_cluster)
           \/ ~(bps <= bytes_per_cluster /\ bytes_per_cluster <= MAX_CLUSTER_SIZE)
        THEN Err("InvalidClusterSize")
        ELSE IF BLt(BDivS(o.dev_size, bps), Big(2^(20 - ILog2Int(bps))))
        THEN Err("InvalidSize")
        ELSE [status |-> "Go",
              format_options |-> o,
              bytes_per_cluster |-> bytes_per_cluster,
              number_of_fats |-> 1,
              volume_flags |-> 0,
              partition_offset |-> BDivS(o.partition_offset, bps),
              bytes_per_sector_shift |-> ILog2Int(bps),
              sectors_per_cluster_shift |-> ILog2Int(bytes_per_cluster \div bps),
              volume_length |-> BDivS(o.dev_size, bps)]

\* fat_offset_bytes and fat_offset
SolveFatOffset(g, checks) ==
    LET o == g.format_options
        boot_end == BAdd(Big(o.bytes_per_sector * 24), g.partition_offset)
        Narrowed(fat_offset_bytes) ==
            IF ~FitsU32(fat_offset_bytes) THEN Err("BoundaryAlignTooBig")
            ELSE [fat_offset_bytes |-> fat_offset_bytes,
                  fat_offset |-> BDivS(fat_offset_bytes, o.bytes_per_sector)] @@ g
        Aligned(aligned) ==
            IF ~FitsU64(aligned) /\ checks THEN Panic("attempt to add with overflow")
            ELSE IF BLt(WrapU64(aligned), g.partition_offset) /\ checks
            THEN Panic("attempt to subtract with overflow")
            ELSE Narrowed(WrapU64(BSub(WrapU64(aligned), g.partition_offset)))
    IN  IF g.status # "Go" THEN g
        ELSE IF ~FitsU64(boot_end) THEN Err("InvalidPartitionOffset")
        ELSE Aligned(NextMultipleOf(boot_end, o.boundary_align))

\* max_clusters, fat_length_bytes and fat_length
SolveFatLength(g, checks) ==
    LET o == g.format_options
        reserved == BAdd(g.fat_offset_bytes, Big(g.number_of_fats * 8 + 1))
        Length(fat_length_bytes) ==
            IF ~FitsU32(BDivS(fat_length_bytes, o.bytes_per_sector))
            THEN Err("InvalidClusterSize")
            ELSE [fat_length_bytes |-> fat_length_bytes,
                  fat_length |-> BDivS(fat_length_bytes, o.bytes_per_sector)] @@ g
        Rounded(fat_length_wide) ==
            IF ~FitsU64(fat_length_wide) /\ checks THEN Panic("attempt to add with overflow")
            ELSE Length(WrapU64(fat_length_wide))
        Entries(fat_entries_bytes) ==
            IF ~FitsU64(fat_entries_bytes) THEN Err("InvalidClusterSize")
            ELSE Rounded(NextMultipleOf(fat_entries_bytes, Big(o.bytes_per_sector)))
        Clusters(max_clusters) ==
            IF ~FitsU64(max_clusters) THEN Err("InvalidClusterSize")
            ELSE Entries(BMulS(BAdd(max_clusters, Big(2)), 4))
    IN  IF g.status # "Go" THEN g
        ELSE IF BLt(o.dev_size, reserved) THEN Err("InvalidClusterSize")
        ELSE Clusters(BAdd(BDivS(BSub(o.dev_size, reserved),
                                 g.bytes_per_cluster + 4 * g.number_of_fats), Big(1)))

\* a cluster heap that starts where the FATs end
cluster_heap_unaligned(fat_end, boundary_align) == fat_end

\* the end of the FATs rounded up to the boundary
cluster_heap_start(fat_end, boundary_align) == NextMultipleOf(fat_end, boundary_align)

\* cluster_heap_offset_bytes and cluster_heap_offset
SolveHeap(g, checks) ==
    LET o == g.format_options
        fat_end == BAdd(BAdd(g.partition_offset, g.fat_offset_bytes),
                        BMulS(g.fat_length_bytes, g.number_of_fats))
        Heap(cluster_heap_offset_bytes) ==
            IF BLe(o.dev_size, cluster_heap_offset_bytes) THEN Err("BoundaryAlignTooBig")
            ELSE [cluster_heap_offset_bytes |-> cluster_heap_offset_bytes,
                  cluster_heap_offset |->
                      BDivS(cluster_heap_offset_bytes, o.bytes_per_sector)] @@ g
        Aligned(heap_aligned) ==
            IF ~FitsU64(heap_aligned) /\ checks THEN Panic("attempt to add with overflow")
            ELSE IF BLt(WrapU64(heap_aligned), g.partition_offset) /\ checks
            THEN Panic("attempt to subtract with overflow")
            ELSE Heap(AsU32(WrapU64(BSub(WrapU64(heap_aligned), g.partition_offset))))
    IN  IF g.status # "Go" THEN g
        ELSE IF ~FitsU64(fat_end) /\ checks THEN Panic("attempt to add with overflow")
        ELSE Aligned(cluster_heap_start(WrapU64(fat_end), o.boundary_align))

\* cluster_count, and the bitmap at the start of the heap
SolveClusterCount(g) ==
    LET by_sectors == AsU32(BShr(BSub(g.volume_length, g.cluster_heap_offset),
                                 g.sectors_per_cluster_shift))
        Count(cluster_count) ==
            IF ~FitsU32(cluster_count) THEN Err("InvalidClusterSize")
            ELSE IF BLt(BMin(MAX_CLUSTER_COUNT, by_sectors), cluster_count)
            THEN Err("InvalidClusterSize")
            ELSE [cluster_count |-> cluster_count,
                  bitmap_offset_bytes |-> g.cluster_heap_offset_bytes,
                  bitmap_length_bytes |->
                      BDivS(NextMultipleOf(cluster_count, Big(8)), 8)] @@ g
    IN  IF g.status # "Go" THEN g
        ELSE Count(BDivS(BSub(g.format_options.dev_size, g.cluster_heap_offset_bytes),
                         g.bytes_per_cluster))

\* the loop of the pack-bitmap branch; all operands are u32 except
\* fat_end_bytes (u64)
RECURSIVE PackLoop(_, _, _, _)
PackLoop(g, bitmap_length_clusters_packed, fat_end_bytes, checks) ==
    LET gap == WrapU32(BSub(g.cluster_heap_offset_bytes, bitmap_length_clusters_packed))
        Again(total_cluster_count, bitmap_length_bytes_packed, new_bitmap_length_clusters) ==
            IF new_bitmap_length_clusters = bitmap_length_clusters_packed
            THEN [cluster_heap_offset_bytes |-> gap,
                  cluster_count |-> total_cluster_count,
                  bitmap_offset_bytes |->
                      WrapU32(BSub(g.bitmap_offset_bytes, bitmap_length_clusters_packed)),
                  bitmap_length_bytes |-> bitmap_length_bytes_packed] @@ g
            ELSE PackLoop(g, new_bitmap_length_clusters, fat_end_bytes, checks)
        Bytes(total_cluster_count, bitmap_length_bytes_packed) ==
            Again(total_cluster_count, bitmap_length_bytes_packed,
                  NextMultipleOf(bitmap_length_bytes_packed, Big(g.bytes_per_cluster)))
        Total(total_cluster_count) ==
            Bytes(total_cluster_count, BDivS(NextMultipleOf(total_cluster_count, Big(8)), 8))
        Room(bitmap_cluster_count_packed) ==
            IF BLt(gap, fat_end_bytes)
               \/ BLt(BSub(MAX_CLUSTER_COUNT, bitmap_cluster_count_packed), g.cluster_count)
            THEN Err("CannotPackBitmap")
            ELSE Total(BAdd(g.cluster_count, bitmap_cluster_count_packed))
    IN  IF BLt(g.cluster_heap_offset_bytes, bitmap_length_clusters_packed) /\ checks
        THEN Panic("attempt to subtract with overflow")
        ELSE Room(BDivS(bitmap_length_clusters_packed, g.bytes_per_cluster))

\* the pack-bitmap branch
SolvePack(g, checks) ==
    LET Packed(p) ==
            IF p.status # "Go" THEN p
            ELSE [p EXCEPT !.cluster_heap_offset =
                      BDivS(p.cluster_heap_offset_bytes, p.format_options.bytes_per_sector)]
    IN  IF g.status # "Go" THEN g
        ELSE IF ~g.format_options.pack_bitmap THEN g
        ELSE Packed(PackLoop(g, NextMultipleOf(g.bitmap_length_bytes, Big(g.bytes_per_cluster)),
                             BAdd(g.fat_offset_bytes, g.fat_length_bytes), checks))

\* the up-case table and the root directory behind the bitmap
SolveTables(g, checks) ==
    LET Root(uptable_offset_bytes, uptable_start_cluster, cluster_length, root_offset_wide) ==
            IF ~FitsU32(root_offset_wide) /\ checks THEN Panic("attempt to add with overflow")
            ELSE [uptable_offset_bytes |-> uptable_offset_bytes,
                  uptable_start_cluster |-> uptable_start_cluster,
                  uptable_length_bytes |-> UPCASE_TABLE_SIZE_BYTES,
                  root_offset_bytes |-> WrapU32(root_offset_wide),
                  first_cluster_of_root_directory |->
                      BAdd(uptable_start_cluster,
                           BDivS(cluster_length, g.bytes_per_cluster))] @@ g
        Uptable(uptable_offset_bytes, uptable_start_cluster, cluster_length) ==
            Root(uptable_offset_bytes, uptable_start_cluster, cluster_length,
                 BAdd(uptable_offset_bytes, cluster_length))
        Bitmap(cluster_length, uptable_offset_wide) ==
            IF ~FitsU32(uptable_offset_wide) /\ checks
            THEN Panic("attempt to add with overflow")
            ELSE Uptable(WrapU32(uptable_offset_wide),
                         BAdd(Big(FIRST_USABLE_CLUSTER_INDEX),
                              BDivS(cluster_length, g.bytes_per_cluster)),
                         NextMultipleOf(Big(UPCASE_TABLE_SIZE_BYTES), Big(g.bytes_per_cluster)))
        Length(cluster_length) ==
            Bitmap(cluster_length, BAdd(g.bitmap_offset_bytes, cluster_length))
    IN  IF g.status # "Go" THEN g
        ELSE Length(NextMultipleOf(g.bitmap_length_bytes, Big(g.bytes_per_cluster)))

\* Exfat::try_from.  o: the format options; now: the clock, [ok, secs] with
\* secs the seconds since the Unix epoch.
TryFrom(o, now, checks) ==
    LET Finish(g) ==
            IF g.status # "Go" THEN g
            ELSE IF ~now.ok THEN Err("NoSerial")
            ELSE [status |-> "Ok",
                  volume_length |-> g.volume_length,
                  bytes_per_sector_shift |-> g.bytes_per_sector_shift,
                  fat_offset |-> g.fat_offset,
                  number_of_fats |-> g.number_of_fats,
                  fat_length |-> g.fat_length,
                  cluster_heap_offset |-> g.cluster_heap_offset,
                  cluster_count |-> g.cluster_count,
                  sectors_per_cluster_shift |-> g.sectors_per_cluster_shift,
                  first_cluster_of_root_directory |-> g.first_cluster_of_root_directory,
                  volume_flags |-> g.volume_flags,
                  volume_serial_number |-> AsU32(now.secs),
                  bytes_per_cluster |-> g.bytes_per_cluster,
                  root_offset_bytes |-> g.root_offset_bytes,
                  format_options |-> g.format_options,
                  bitmap_length_bytes |-> g.bitmap_length_bytes,
                  uptable_length_bytes |-> g.uptable_length_bytes,
                  root_length_bytes |-> DIR_ENTRY_SIZE * 3,
                  cluster_count_used |-> BZero,
                  bitmap_offset_bytes |-> g.bitmap_offset_bytes,
                  uptable_offset_bytes |-> g.uptable_offset_bytes,
                  uptable_start_cluster |-> g.uptable_start_cluster]
    IN  Finish(SolveTables(SolvePack(SolveClusterCount(SolveHeap(SolveFatLength(
            SolveFatOffset(SolveSizes(o), checks), checks), checks)), checks), checks))

\* ------------------------------------------------------------------------
\* Labels
\* ------------------------------------------------------------------------
Repeat(b, n) == [i \in 1..n |-> b]

\* str.len(): the bytes of the UTF-8 encoding
RECURSIVE SumUtf8Len(_)
SumUtf8Len(str) ==
    LET Utf8Len(cp) ==
            IF cp < 128 THEN 1 ELSE IF cp < 2048 THEN 2 ELSE IF cp < 65536 THEN 3 ELSE 4
    IN  IF str = <<>> THEN 0 ELSE Utf8Len(Head(str)) + SumUtf8Len(Tail(str))

\* str.encode_utf16() as little-endian bytes
RECURSIVE EncodeUtf16(_)
EncodeUtf16(str) ==
    LET Pair(hi, lo) == <<hi % 256, hi \div 256, lo % 256, lo \div 256>>
        Utf16LeBytes(cp) ==
            IF cp < 65536 THEN <<cp % 256, cp \div 256>>
            ELSE Pair(55296 + ((cp - 65536) \div 1024), 56320 + ((cp - 65536) % 1024))
    IN  IF str = <<>> THEN <<>> ELSE Utf16LeBytes(Head(str)) \o EncodeUtf16(Tail(str))

\* Label::default()
LabelDefault == [bytes |-> Repeat(0, 22), len |-> 0]

\* Label::new: str is the string as a sequence of Unicode scalar values
LabelNew(str) ==
    LET len == SumUtf8Len(str)
        encoded == EncodeUtf16(str)
    IN  IF len > 11 THEN [status |-> "None"]
        ELSE IF Len(encoded) > 22 THEN Panic("assertion failed: copy_len <= 22")
        ELSE [status |-> "Some",
              label |-> [bytes |-> encoded \o Repeat(0, 22 - Len(encoded)), len |-> len]]

\* ------------------------------------------------------------------------
\* Little-endian encoding
\* ------------------------------------------------------------------------
\* u64::to_le_bytes of a wide integer below 2^64
Le8(a) ==
    <<a[1] % 256, a[1] \div 256 + (a[2] % 16) * 16, a[2] \div 16,
      a[3] % 256, a[3] \div 256 + (a[4] % 16) * 16, a[4] \div 16,
      a[5] % 256, a[5] \div 256 + (a[6] % 16) * 16>>
Le4(a) == SubSeq(Le8(a), 1, 4)
Le2(n) == <<n % 256, n \div 256>>

\* u32::from_le_bytes
FromLe4(b) == <<b[1] + (b[2] % 16) * 256, b[2] \div 16 + b[3] * 16, b[4], 0, 0, 0>>

\* ------------------------------------------------------------------------
\* Boot checksum (format/boot.rs).  The u32 accumulator is [t, l]: bit 31
\* and the low 31 bits; ovf records that an addition left the u32 range.
\* ------------------------------------------------------------------------
M31 == (2^30 - 1) * 2 + 1

\* Checksum::new
ChecksumNew == [t |-> 0, l |-> 0, ovf |-> FALSE]

\* (inner & 1) * 0x80000000 + (inner >> 1)
Rotate(c) == [t |-> c.l % 2, l |-> c.t * (2^30) + c.l \div 2, ovf |-> c.ovf]

\* A run of loop iterations lo..hi-1 over the bytes of a sector, split in
\* halves; skip is the set of indexes the loop passes over.  With overflow
\* checks the addition that overflows panics and the loop goes no further.
RECURSIVE FoldRange(_, _, _, _, _, _)
FoldRange(c, sector, lo, hi, skip, checks) ==
    LET \* (inner & 1) * 0x80000000 + (inner >> 1) + b, modulo 2^32
        Add(r, b) ==
            IF r.l > M31 - b
            THEN [t |-> (r.t + 1) % 2, l |-> r.l - (M31 - b) - 1, ovf |-> r.ovf \/ r.t = 1]
            ELSE [t |-> r.t, l |-> r.l + b, ovf |-> r.ovf]
        Fold(acc, b) == Add(Rotate(acc), b)
    IN
    IF (c.ovf /\ checks) \/ hi <= lo THEN c
    ELSE IF hi = lo + 1
         THEN IF lo \in skip THEN c ELSE Fold(c, sector[lo + 1])
         ELSE LET mid == (lo + hi) \div 2
                  left == FoldRange(c, sector, lo, mid, skip, checks)
              IN  FoldRange(left, sector, mid, hi, skip, checks)

\* Checksum::zero_sector: sector_size_in_bytes rotations
RECURSIVE RotateTimes(_, _)
RotateTimes(c, n) ==
    IF c.ovf \/ n = 0 THEN c
    ELSE IF n = 1 THEN Rotate(c)
         ELSE RotateTimes(RotateTimes(c, n \div 2), n - n \div 2)
zero_sector(c, sector_size_in_bytes) ==
    [RotateTimes([c EXCEPT !.ovf = FALSE], sector_size_in_bytes) EXCEPT !.ovf = c.ovf]

\* Checksum::boot_sector after its assertion: every byte but 106, 107, 112
boot_sector(c, sector, sector_size_in_bytes, checks) ==
    FoldRange(c, sector, 0, sector_size_in_bytes, {106, 107, 112}, checks)

\* Checksum::extended_boot_sector: the same sector folded amount times
RECURSIVE extended_boot_sector(_, _, _, _, _)
extended_boot_sector(c, sector, amount, sector_size_in_bytes, checks) ==
    IF amount = 0 THEN c
    ELSE extended_boot_sector(FoldRange(c, sector, 0, sector_size_in_bytes, {}, checks),
                              sector, amount - 1, sector_size_in_bytes, checks)

\* Checksum::get as the four bytes it occupies in memory
ChecksumBytes(c) ==
    <<c.l % 256, (c.l \div 256) % 256, (c.l \div 65536) % 256, c.l \div (2^24) + 128 * c.t>>

\* ------------------------------------------------------------------------
\* Boot sector
\* ------------------------------------------------------------------------
FILESYSTEM_NAME == <<69, 88, 70, 65, 84, 32, 32, 32>>      \* "EXFAT   "

\* bytes_of(&BootSector::new(meta)): the 512 bytes of the packed structure
BootSectorNew(meta) ==
    <<235, 118, 144>> \o FILESYSTEM_NAME \o Repeat(0, 53)
    \o Le8(meta.format_options.partition_offset)
    \o Le8(meta.volume_length)
    \o Le4(meta.fat_offset)
    \o Le4(meta.fat_length)
    \o Le4(meta.cluster_heap_offset)
    \o Le4(meta.cluster_count)
    \o Le4(meta.first_cluster_of_root_directory)
    \o Le4(meta.volume_serial_number)
    \o <<0, 1>>
    \o Le2(meta.volume_flags)
    \o <<meta.bytes_per_sector_shift, meta.sectors_per_cluster_shift,
         meta.number_of_fats, DRIVE_SELECT, 255>>
    \o Repeat(0, 7) \o Repeat(244, 390) \o <<85, 170>>


\* ------------------------------------------------------------------------
\* The device: its length when handed over, the byte it is filled with, and
\* the writes made to it, oldest first.  A write is [off, n, kind, bytes]:
\* n bytes at byte offset off, all zero (kind "zero"), the given bytes
\* (kind "bytes") or the up-case table (kind "upcase").
\* ------------------------------------------------------------------------
BlankDevice(len, fill) == [len |-> len, orig |-> len, fill |-> fill, log |-> <<>>]

\* the device after n bytes were written at off: a file grows to hold them
Written(dev, off, n, w) ==
    [dev EXCEPT !.log = Append(@, w), !.len = IF BLe(@, BAdd(off, n)) THEN BAdd(off, n) ELSE @]

\* seek(SeekFrom::Start(off)) then write_all(bytes)
WriteAll(dev, off, bytes) ==
    IF Len(bytes) = 0 THEN dev
    ELSE Written(dev, off, Big(Len(bytes)),
                 [off |-> off, n |-> Big(Len(bytes)), kind |-> "bytes", bytes |-> bytes])

\* disk::write_zeroes: size zero bytes from offset, in pieces of 4 KiB
write_zeroes(dev, size, offset) ==
    IF size = BZero THEN dev
    ELSE Written(dev, offset, size,
                 [off |-> offset, n |-> size, kind |-> "zero", bytes |-> <<>>])

\* a byte of DEFAULT_UPCASE_TABLE, whose contents the model leaves open
UPCASE_BYTE == 0 - 1

\* the windows of the writes that reach into a read of n bytes at off,
\* oldest first.  A window is the part of the read that a write covers: the
\* bytes lo..hi-1 of the read, the first of which is byte skew of the write
RECURSIVE Windows(_, _, _, _)
Windows(log, k, off, n) ==
    LET Clip(w, w_end, r_end) ==
            LET lo == IF BLe(w.off, off) THEN 0
                      ELSE IF BLt(w.off, r_end) THEN ToInt(BSub(w.off, off)) ELSE n
                hi == IF BLe(r_end, w_end) THEN n
                      ELSE IF BLt(off, w_end) THEN ToInt(BSub(w_end, off)) ELSE 0
            IN  [lo |-> lo, hi |-> hi, kind |-> w.kind, bytes |-> w.bytes,
                 skew |-> IF w.kind = "bytes" /\ BLt(w.off, off) /\ lo < hi
                          THEN ToInt(BSub(off, w.off)) ELSE 0]
        Window(w) == Clip(w, BAdd(w.off, w.n), BAdd(off, Big(n)))
        Keep(rest, w) == IF w.lo < w.hi THEN Append(rest, w) ELSE rest
    IN  IF k = 0 THEN <<>>
        ELSE Keep(Windows(log, k - 1, off, n), Window(log[k]))

\* byte i of the read: the latest write that covers it, else what the device
\* held: its fill inside the original length, 0 beyond it
RECURSIVE ByteFrom(_, _, _, _)
ByteFrom(wins, k, i, otherwise) ==
    IF k = 0 THEN otherwise
    ELSE LET w == wins[k]
         IN  IF w.lo <= i /\ i < w.hi
             THEN CASE w.kind = "zero" -> 0
                    [] w.kind = "upcase" -> UPCASE_BYTE
                    [] OTHER -> w.bytes[w.skew + (i - w.lo) + 1]
             ELSE ByteFrom(wins, k - 1, i, otherwise)

\* ReadOffset::read_exact into a zeroed buffer of n bytes: a read that runs
\* into the end of the device stops and leaves the rest of the buffer as is
ReadExact(dev, off, n) ==
    LET Bytes(wins, inside) ==
            SubSeq([i \in 1..n |->
                      ByteFrom(wins, Len(wins), i - 1, IF i - 1 < inside THEN dev.fill ELSE 0)],
                   1, n)
    IN  Bytes(Windows(dev.log, Len(dev.log), off, n),
              IF BLe(BAdd(off, Big(n)), dev.orig) THEN n
              ELSE IF BLt(off, dev.orig) THEN ToInt(BSub(dev.orig, off)) ELSE 0)

\* ------------------------------------------------------------------------
\* Exfat::write and its steps.  A step returns [status, at, device, ...]:
\* the device as the step leaves it, also when it panics half way.
\* ------------------------------------------------------------------------
Done(dev) == [status |-> "Ok", at |-> "", device |-> dev]
Aborted(at, dev) == [status |-> "Panic", at |-> at, device |-> dev]

\* Exfat::offset_sector_bytes
offset_sector_bytes(meta, sector_index) ==
    Big(meta.format_options.bytes_per_sector * sector_index)

\* Exfat::write_sector
write_sector(meta, dev, bytes, offset_sectors) ==
    WriteAll(dev, offset_sector_bytes(meta, offset_sectors), bytes)

\* Exfat::write_extended: the same buffer written to amount sectors
RECURSIVE write_extended(_, _, _, _, _)
write_extended(meta, dev, buffer, offset_sectors, amount) ==
    IF amount = 0 THEN dev
    ELSE write_extended(meta, write_sector(meta, dev, buffer, offset_sectors),
                        buffer, offset_sectors + 1, amount - 1)

\* Exfat::write_checksum: a sector of copies of the checksum
write_checksum(meta, dev, checksum, offset_sectors) ==
    LET word == ChecksumBytes(checksum)
        n == meta.format_options.bytes_per_sector
        buffer == SubSeq([i \in 1..n |-> word[((i - 1) % 4) + 1]], 1, n)
    IN  write_sector(meta, dev, buffer, offset_sectors)

\* Exfat::write_boot_region
write_boot_region(meta, dev, offset_sectors, checks) ==
    LET bps == meta.format_options.bytes_per_sector
        bytes == BootSectorNew(meta)
        d1 == write_sector(meta, dev, bytes, offset_sectors)
    IN
    IF Len(bytes) # bps THEN Aborted("assertion left == right failed", d1)
    ELSE
    LET c1 == boot_sector(ChecksumNew, bytes, bps, checks)
    IN
    IF c1.ovf /\ checks THEN Aborted("attempt to add with overflow", d1)
    ELSE
    LET \* the buffer of write_extended: zero words, the last one the signature
        buffer == Repeat(0, bps - 4) \o <<0, 0, 85, 170>>
        d2 == write_extended(meta, d1, buffer, offset_sectors + 1, EXTENDED_BOOT)
        c2 == extended_boot_sector(c1, buffer, EXTENDED_BOOT, bps, checks)
    IN
    IF c2.ovf /\ checks THEN Aborted("attempt to add with overflow", d2)
    ELSE
    LET oem == offset_sectors + 1 + EXTENDED_BOOT
        d3 == write_zeroes(d2, Big(bps), offset_sector_bytes(meta, oem))
        c3 == zero_sector(c2, bps)
        d4 == write_zeroes(d3, Big(bps), offset_sector_bytes(meta, oem + 1))
        c4 == zero_sector(c3, bps)
    IN  Done(write_checksum(meta, d4, c4, oem + 2))

\* FatEntry::media_type, FatEntry::eof, FatEntry::bad
FatMediaType == BSub(BigPow2(32), Big(8))
FatEof == BSub(BigPow2(32), Big(1))
FatBad == BSub(BigPow2(32), Big(9))

\* FAT entries one byte apart
write_fat_entry_unscaled(meta, dev, entry, index) ==
    WriteAll(dev,
             BAdd(BMulS(meta.fat_offset, meta.format_options.bytes_per_sector), index),
             Le4(entry))

\* Exfat::write_fat_entry
write_fat_entry(meta, dev, entry, index) ==
    WriteAll(dev,
             BAdd(BMulS(meta.fat_offset, meta.format_options.bytes_per_sector),
                  BMulS(index, 4)),
             Le4(entry))

\* the loop of write_fat_entries: entry current holds current + 1
RECURSIVE WriteChain(_, _, _, _)
WriteChain(meta, dev, current, last) ==
    IF BLe(last, current) THEN dev
    ELSE WriteChain(meta, write_fat_entry(meta, dev, BAdd(current, Big(1)), current),
                    BAdd(current, Big(1)), last)

\* Exfat::write_fat_entries: returns the next free FAT entry in count
write_fat_entries(meta, dev, cluster, length, checks) ==
    LET Entries(count) ==
            [status |-> "Ok", at |-> "",
             device |-> write_fat_entry(meta,
                                        WriteChain(meta, dev, cluster,
                                                   WrapU32(BSub(count, Big(1)))),
                                        FatEof, BSub(count, Big(1))),
             count |-> count]
        Counted(rounded, count_wide) ==
            IF (~FitsU32(rounded) \/ ~FitsU32(count_wide)) /\ checks
            THEN [status |-> "Panic", at |-> "attempt to add with overflow",
                  device |-> dev, count |-> WrapU32(count_wide)]
            ELSE IF WrapU32(count_wide) = BZero /\ checks
            THEN [status |-> "Panic", at |-> "attempt to subtract with overflow",
                  device |-> dev, count |-> BZero]
            ELSE Entries(WrapU32(count_wide))
        Rounded(rounded) ==
            Counted(rounded, BAdd(cluster, BDivS(WrapU32(rounded), meta.bytes_per_cluster)))
    IN  Rounded(NextMultipleOf(length, Big(meta.bytes_per_cluster)))

\* Exfat::write_fat: returns the device and cluster_count_used
write_fat(meta, dev, checks) ==
    LET Used(rootdir) ==
            IF rootdir.status # "Ok" THEN rootdir
            ELSE [rootdir EXCEPT !.count = BSub(@, Big(FIRST_USABLE_CLUSTER_INDEX))]
        RootDir(uptable) ==
            IF uptable.status # "Ok" THEN uptable
            ELSE Used(write_fat_entries(meta, uptable.device, uptable.count,
                                        Big(meta.root_length_bytes), checks))
        Uptable(bitmap) ==
            IF bitmap.status # "Ok" THEN bitmap
            ELSE RootDir(write_fat_entries(meta, bitmap.device, bitmap.count,
                                           Big(meta.uptable_length_bytes), checks))
    IN  Uptable(write_fat_entries(meta,
                                  write_fat_entry(meta,
                                                  write_fat_entry(meta, dev, FatMediaType, Big(0)),
                                                  FatEof, Big(1)),
                                  Big(FIRST_USABLE_CLUSTER_INDEX),
                                  meta.bitmap_length_bytes, checks))

\* Exfat::write_bitmap: the first cluster_count_used bits set, the rest clear
write_bitmap(meta, dev) ==
    LET len == ToInt(meta.bitmap_length_bytes)
        used == ToInt(meta.cluster_count_used)
        full_bytes == used \div 8
        remaining_bits == used % 8
        zero_offset == IF remaining_bits # 0 THEN full_bytes + 1 ELSE full_bytes
    IN  IF full_bytes > len
        THEN Aborted("range end index out of range for slice", dev)
        ELSE IF remaining_bits # 0 /\ full_bytes >= len
        THEN Aborted("index out of bounds", dev)
        ELSE LET bitmap == Repeat(255, full_bytes)
                           \o (IF remaining_bits # 0
                               THEN <<2^remaining_bits - 1>> ELSE <<>>)
                           \o Repeat(0, len - zero_offset)
             IN  Done(WriteAll(dev, meta.bitmap_offset_bytes, bitmap))

\* Exfat::write_upcase_table
write_upcase_table(meta, dev) ==
    Written(dev, meta.uptable_offset_bytes, Big(UPCASE_TABLE_SIZE_BYTES),
            [off |-> meta.uptable_offset_bytes, n |-> Big(UPCASE_TABLE_SIZE_BYTES),
             kind |-> "upcase", bytes |-> <<>>])

\* ------------------------------------------------------------------------
\* Directory entries (dir/entry/mod.rs) as their 32 bytes
\* ------------------------------------------------------------------------
VOLUME_GUID_ENTRY_TYPE == 160
DEFAULT_UPCASE_TABLE_CHECKSUM == <<13, 211, 25, 230>>    \* 0xE619D30D, little-endian

\* u16::rotate_right(1) then wrapping_add(b)
Sum16(sum, b) == ((sum % 2) * 32768 + sum \div 2 + b) % 65536

RECURSIVE Sum16From(_, _, _)
Sum16From(sum, bytes, i) ==
    IF i > Len(bytes) THEN sum ELSE Sum16From(Sum16(sum, bytes[i]), bytes, i + 1)

\* DirEntry::checksum
checksum(bytes, input) ==
    LET head == Sum16(Sum16(input, bytes[1]), bytes[2])
        start == IF (bytes[1] \div 4) % 2 = 0 THEN 4 ELSE 2
    IN  Sum16From(head, bytes, start + 1)

\* DirEntry::VolumeLabel(VolumeLabelEntry::new(label))
VolumeLabelEntry(label) == <<131, label.len>> \o label.bytes \o Repeat(0, 8)

\* DirEntry::VolumeGuid(VolumeGuidEntry::new(guid))
VolumeGuidEntry(guid) ==
    LET blank == <<VOLUME_GUID_ENTRY_TYPE, 0, 0, 0, 0, 0>> \o guid \o Repeat(0, 10)
    IN  <<VOLUME_GUID_ENTRY_TYPE, 0>> \o Le2(checksum(blank, 0)) \o <<0, 0>>
        \o guid \o Repeat(0, 10)

\* DirEntry::new_unused
new_unused(type) == <<IF type >= 128 THEN type - 128 ELSE type>> \o Repeat(0, 31)

\* DirEntry::Bitmap(BitmapEntry::new(data_len))
BitmapEntry(data_len) ==
    <<129, 0>> \o Repeat(0, 18) \o Le4(Big(FIRST_USABLE_CLUSTER_INDEX)) \o Le8(data_len)

\* DirEntry::UpcaseTable(UpcaseTableEntry::new(first_cluster))
UpcaseTableEntry(first_cluster) ==
    <<130, 0, 0, 0>> \o DEFAULT_UPCASE_TABLE_CHECKSUM \o Repeat(0, 12)
    \o Le4(first_cluster) \o Le8(Big(UPCASE_TABLE_SIZE_BYTES))

\* RawRoot::new(..).bytes()
RawRootBytes(volume_label, volume_guid, bitmap_length_bytes, uptable_start_cluster) ==
    VolumeLabelEntry(volume_label)
    \o (IF volume_guid.status = "Some" THEN VolumeGuidEntry(volume_guid.bytes)
        ELSE new_unused(VOLUME_GUID_ENTRY_TYPE))
    \o BitmapEntry(bitmap_length_bytes)
    \o UpcaseTableEntry(uptable_start_cluster)

\* Exfat::write_root_dir
write_root_dir(meta, dev) ==
    WriteAll(dev, meta.root_offset_bytes,
             RawRootBytes(meta.format_options.label, meta.format_options.guid,
                          meta.bitmap_length_bytes, meta.uptable_start_cluster))

\* the start of Exfat::write: the length check, then the clearing
WriteStart(meta, dev) ==
    IF dev.len # meta.format_options.dev_size
    THEN Aborted("assertion left == right failed", dev)
    ELSE LET size == IF meta.format_options.full_format
                     THEN meta.format_options.dev_size
                     ELSE BAdd(meta.root_offset_bytes, Big(meta.bytes_per_cluster))
         IN  Done(write_zeroes(dev, size, BZero))

\* ------------------------------------------------------------------------
\* Root::open (dir/mod.rs) with Fat::load, ClusterChain, ClusterChainReader
\* and DirEntryReader
\* ------------------------------------------------------------------------
MaxChain == 4        \* clusters followed in a chain before it counts as endless
MaxEntries == 8      \* directory entries walked

\* the fields of the boot sector that Root::open uses, from its 512 bytes
ParseBootSector(bs) ==
    [filesystem_name |-> SubSeq(bs, 4, 11),
     fat_offset |-> FromLe4(SubSeq(bs, 81, 84)),
     fat_length |-> FromLe4(SubSeq(bs, 85, 88)),
     cluster_heap_offset |-> FromLe4(SubSeq(bs, 89, 92)),
     cluster_count |-> FromLe4(SubSeq(bs, 93, 96)),
     first_cluster_of_root_directory |-> FromLe4(SubSeq(bs, 97, 100)),
     volume_flags |-> bs[107] + 256 * bs[108],
     bytes_per_sector_shift |-> bs[109],
     sectors_per_cluster_shift |-> bs[110],
     number_of_fats |-> bs[111]]

\* BootSector::bytes_per_cluster
bytes_per_cluster(boot) == 2^(boot.bytes_per_sector_shift + boot.sectors_per_cluster_shift)

\* BootSector::cluster_offset: the byte offset of a cluster of the heap
cluster_offset(boot, cluster) ==
    LET Bytes(bytes) == IF FitsU64(bytes) THEN [status |-> "Some", value |-> bytes]
                        ELSE [status |-> "None"]
    IN  IF BLt(cluster, Big(FIRST_USABLE_CLUSTER_INDEX)) THEN [status |-> "None"]
        ELSE Bytes(BShl(BAdd(boot.cluster_heap_offset,
                             BShl(BSub(cluster, Big(FIRST_USABLE_CLUSTER_INDEX)),
                                  boot.sectors_per_cluster_shift)),
                        boot.bytes_per_sector_shift))

\* the byte offset of the active FAT, as Fat::load computes it
FatByteOffset(boot) ==
    LET index == boot.volume_flags % 2
    IN  BShl(BAdd(BMulS(boot.fat_length, index), boot.fat_offset),
             boot.bytes_per_sector_shift)

\* Fat::load: its two assertions, then the offset of the FAT it reads
FatLoad(boot) ==
    LET index == boot.volume_flags % 2
    IN  IF boot.number_of_fats \notin {1, 2}
        THEN Panic("assertion failed: [1, 2].contains(&boot.number_of_fats)")
        ELSE IF index + 1 # boot.number_of_fats
        THEN Panic("assertion failed: index + 1 == boot.number_of_fats")
        ELSE IF ~FitsU64(FatByteOffset(boot)) THEN Err("InvalidOffset")
        ELSE [status |-> "Ok", index |-> index, byte_offset |-> FatByteOffset(boot)]

\* ClusterChain::next, collected: the clusters from next on; a chain longer
\* than MaxChain stands for one that does not end
RECURSIVE ClusterChain(_, _, _, _, _)
ClusterChain(dev, fat_bytes, entries_len, next, fuel) ==
    LET Follow(entry) ==
            IF entry = FatBad THEN <<>>
            ELSE IF fuel = 0 THEN <<next>>
            ELSE <<next>> \o ClusterChain(dev, fat_bytes, entries_len, entry, fuel - 1)
    IN  IF BLt(next, Big(2)) \/ BLe(entries_len, next) THEN <<>>
        ELSE Follow(FromLe4(ReadExact(dev, BAdd(fat_bytes, BMulS(next, 4)), 4)))

\* DirEntry::try_from accepts these entry types
KnownEntryTypes == (0..131) \cup {133, 160, 192, 193, 224, 225}

\* the loop of Root::open.  rd: [dev, boot, chain]; offset: the offset of
\* the ClusterChainReader; st: [bitmaps, upcase, label]
RECURSIVE Walk(_, _, _, _)
Walk(rd, offset, st, fuel) ==
    LET cluster_size == bytes_per_cluster(rd.boot)
        next == offset + DIR_ENTRY_SIZE
        Entry(entry, type, first_cluster) ==
            IF type \notin KnownEntryTypes THEN Err("InvalidEntry")
            ELSE IF type > 0 /\ type < 128 THEN Walk(rd, next, st, fuel - 1)
            ELSE IF type < 129
            THEN IF (rd.boot.number_of_fats = 2 /\ st.bitmaps < 2) \/ st.bitmaps = 0
                 THEN Err("InvalidNumberOfAllocationBitmaps")
                 ELSE IF ~st.upcase THEN Err("InvalidNumberOfUpcaseTables")
                 ELSE [status |-> "Ok", volume_label |-> st.label, items |-> <<>>]
            ELSE IF (type \div 64) % 2 # 0 THEN Err("RootEntryNotPrimary")
            ELSE CASE type = 129 ->
                        IF st.bitmaps = 2 THEN Err("InvalidNumberOfAllocationBitmaps")
                        ELSE IF st.bitmaps # entry[2] % 2 \/ BLt(first_cluster, Big(2))
                        THEN Err("InvalidAllocationBitmap")
                        ELSE Walk(rd, next, [st EXCEPT !.bitmaps = @ + 1], fuel - 1)
                   [] type = 130 ->
                        IF st.upcase THEN Err("InvalidNumberOfUpcaseTables")
                        ELSE IF BLt(first_cluster, Big(2)) THEN Err("InvalidUpcaseTable")
                        ELSE Walk(rd, next, [st EXCEPT !.upcase = TRUE], fuel - 1)
                   [] type = 131 ->
                        IF st.label.status = "Some" THEN Err("InvalidNumberOfVolumeLabels")
                        ELSE IF entry[2] > 11 THEN Err("InvalidVolumeLabel")
                        ELSE Walk(rd, next,
                                  [st EXCEPT !.label =
                                       [status |-> "Some",
                                        label |-> [bytes |-> SubSeq(entry, 3, 24),
                                                   len |-> entry[2]]]],
                                  fuel - 1)
                   [] type = 133 -> [status |-> "Unmodelled", kind |-> "File"]
                   [] type = 0 \/ type = 128 -> Panic("not yet implemented")
                   [] OTHER -> Err("UnexpectedRootEntry")
        Read(entry) == Entry(entry, entry[1], FromLe4(SubSeq(entry, 21, 24)))
        At(at) ==
            IF at.status = "None" THEN Err("ReadFailed")
            ELSE Read(ReadExact(rd.dev, BAdd(at.value, Big(offset % cluster_size)),
                                DIR_ENTRY_SIZE))
    IN  IF fuel = 0 THEN [status |-> "Unmodelled", kind |-> "LongDirectory"]
        ELSE IF offset \div cluster_size >= Len(rd.chain)
                \/ next \div cluster_size >= Len(rd.chain)
        THEN Panic("index out of bounds")
        ELSE At(cluster_offset(rd.boot, rd.chain[offset \div cluster_size + 1]))

\* Root::open
Open(dev) ==
    LET Chain(boot, chain) ==
            IF chain = <<>> THEN Err("InvalidFirstCluster")
            ELSE IF Len(chain) > MaxChain THEN [status |-> "Hang", kind |-> "ClusterChain"]
            ELSE Walk([dev |-> dev, boot |-> boot, chain |-> chain], 0,
                      [bitmaps |-> 0, upcase |-> FALSE, label |-> [status |-> "None"]],
                      MaxEntries)
        Fat(boot, fat, first_cluster) ==
            IF fat.status # "Ok" THEN fat
            ELSE IF BLt(first_cluster, Big(2))
                    \/ BLt(BAdd(boot.cluster_count, Big(1)), first_cluster)
            THEN Err("InvalidRootDirectoryClusterIndex")
            ELSE Chain(boot, ClusterChain(dev, fat.byte_offset, boot.cluster_count,
                                          first_cluster, MaxChain))
        Boot(boot) ==
            IF boot.filesystem_name # FILESYSTEM_NAME THEN Err("WrongFs")
            ELSE IF ~(9 <= boot.bytes_per_sector_shift /\ boot.bytes_per_sector_shift <= 12)
            THEN Err("InvalidBytesPerSectorShift")
            ELSE IF boot.sectors_per_cluster_shift > 25 - boot.bytes_per_sector_shift
            THEN Err("InvalidSectorsPerClusterShift")
            ELSE IF boot.number_of_fats \notin {1, 2} THEN Err("InvalidNumberOfFats")
            ELSE IF (boot.volume_flags % 2 = 1 /\ boot.number_of_fats = 1)
                    \/ (boot.volume_flags % 2 = 0 /\ boot.number_of_fats = 2)
            THEN Err("InvalidNumberOfFats")
            ELSE Fat(boot, FatLoad(boot), boot.first_cluster_of_root_directory)
    IN  Boot(ParseBootSector(ReadExact(dev, BZero, 512)))

\* ------------------------------------------------------------------------
\* State
\* ------------------------------------------------------------------------
VARIABLES
    builder,          \* the values given to FormatVolumeOptionsBuilder
    now,              \* the clock read by VolumeSerialNumber::try_new
    overflow_checks,  \* build profile: TRUE when arithmetic overflow panics
    pc,               \* position of the caller: build, solve, write steps, open
    options,          \* FormatVolumeOptions once built
    exfat,            \* result of Exfat::try_from, then the formatter
    device,           \* the block device
    outcome,          \* how Exfat::write ended
    root,             \* result of Root::open
    call,             \* a call of a library function: its name and arguments
    ret,              \* what the call returned
    reader            \* a ClusterChainReader with its DirEntryReader

vars == <<builder, now, overflow_checks, pc, options, exfat, device, outcome, root,
          call, ret, reader>>

\* the state of the formatter and the state of the library calls
fmtVars == <<builder, now, overflow_checks, pc, options, exfat, device, outcome, root>>
libVars == <<call, ret, reader>>

None == [status |-> "None"]

\* ------------------------------------------------------------------------
\* Inputs
\* ------------------------------------------------------------------------
MaxSizeIdx == 13

\* device sizes in bytes
DevSizeAt(i) ==
    CASE i = 1 -> BigPow2(25)                          \* 32 MiB
      [] i = 2 -> BigPow2(28)                          \* 256 MiB
      [] i = 3 -> BigPow2(29)                          \* 512 MiB
      [] i = 4 -> BMulS(BigPow2(30), 5)                \* 5 GiB
      [] i = 5 -> BAdd(BigPow2(21), Big(4096))         \* 2 MiB + 4 KiB
      [] i = 6 -> BAdd(BigPow2(21), Big(1))            \* 2 MiB + 1
      [] i = 7 -> BigPow2(20)                          \* 1 MiB
      [] i = 8 -> BSub(BigPow2(20), Big(1))            \* 1 MiB - 1
      [] i = 9 -> BMulS(BigPow2(30), 3)                \* 3 GiB
      [] i = 10 -> BigPow2(47)                         \* 128 TiB
      [] i = 11 -> BigPow2(36)                         \* 64 GiB
      [] i = 12 -> BAdd(BigPow2(28), Big(1))           \* 256 MiB + 1
      [] i = 13 -> BigPow2(35)                         \* 32 GiB
      [] OTHER -> BAdd(BMulS(BigPow2(20), 7 * i), Big(4096 * i + 17))

DevSizes == {DevSizeAt(i) : i \in 1..MaxSizeIdx}

HelloLabel == LabelNew(<<72, 101, 108, 108, 111>>).label

\* a GUID as its 16 little-endian bytes
SomeGuid == [status |-> "Some",
             bytes |-> <<1, 35, 69, 103, 137, 171, 205, 239, 16, 50, 84, 118, 152, 186, 220, 254>>]

ClockOk(secs) == [ok |-> TRUE, secs |-> secs]
ClockBeforeEpoch == [ok |-> FALSE, secs |-> BZero]

\* option space of the geometry solver
GeomBuilders ==
    [pack_bitmap : BOOLEAN, full_format : {FALSE}, dev_size : DevSizes,
     label : {LabelDefault}, guid : {None},
     partition_offset : {BZero, Big(512), BigPow2(20), BMulS(BigPow2(20), 3)},
     bytes_per_sector : {512, 1024, 2048, 4096},
     boundary_align : {BigPow2(20), BigPow2(9), BigPow2(0), BigPow2(31)}]
    \cup
    [pack_bitmap : {TRUE}, full_format : {FALSE}, dev_size : {BigPow2(25)},
     label : {LabelDefault}, guid : {None}, partition_offset : {BZero},
     bytes_per_sector : {256, 1000, 8192},
     boundary_align : {BigPow2(20)}]
    \cup
    [pack_bitmap : {TRUE}, full_format : {FALSE}, dev_size : {BigPow2(25)},
     label : {LabelDefault}, guid : {None}, partition_offset : {BZero},
     bytes_per_sector : {512},
     boundary_align : {BMulS(BigPow2(10), 3)}]

\* ------------------------------------------------------------------------
\* Actions
\* ------------------------------------------------------------------------

\* FormatVolumeOptionsBuilder::build: the derived builder runs validate and
\* wraps its message in the builder's ValidationError
Build ==
    /\ pc = "new"
    /\ LET v == validate(builder.bytes_per_sector, builder.boundary_align)
       IN  IF v = "Ok"
           THEN /\ options' = builder
                /\ pc' = "built"
           ELSE /\ options' = [status |-> "Err", kind |-> "ValidationError", message |-> v]
                /\ pc' = "build_failed"
    /\ UNCHANGED <<builder, now, overflow_checks, exfat, device, outcome, root>>
    /\ UNCHANGED libVars

\* Exfat::try_from
Solve ==
    /\ pc = "built"
    /\ exfat' = TryFrom(options, now, overflow_checks)
    /\ pc' = CASE exfat'.status = "Ok" -> "solved"
               [] exfat'.status = "Err" -> "rejected"
               [] OTHER -> "panicked"
    /\ UNCHANGED <<builder, now, overflow_checks, options, device, outcome, root>>
    /\ UNCHANGED libVars

InitGeom ==
    /\ builder \in GeomBuilders
    /\ now \in {ClockOk(Big(1700000000)), ClockBeforeEpoch}
    /\ overflow_checks \in BOOLEAN
    /\ pc = "new"
    /\ options = None
    /\ exfat = None
    /\ device = BlankDevice(builder.dev_size, 0)
    /\ outcome = None
    /\ root = None
    /\ call = None
    /\ ret = None
    /\ reader = None

NextGeom == Build \/ Solve

SpecGeom == InitGeom /\ [][NextGeom]_vars

\* ------------------------------------------------------------------------
\* Formatting a device and opening it
\* ------------------------------------------------------------------------
MaxGridIdx == 3

DefaultClock == ClockOk(Big(1700000000))

\* a clock in February 2106, and a device size of 418009 sectors
LateClock == ClockOk(BSub(BigPow2(32), Big(26880)))
OddSize == Big(214020608)

DefaultBuilder ==
    [pack_bitmap |-> TRUE, full_format |-> FALSE, dev_size |-> BigPow2(25),
     label |-> LabelDefault, guid |-> None, partition_offset |-> BZero,
     bytes_per_sector |-> 512, boundary_align |-> DEFAULT_BOUNDARY_ALIGNEMENT]

Case(b, clock, len, fill) == [builder |-> b, now |-> clock, device |-> BlankDevice(len, fill)]

\* options, clock and device of the runs
FormatCases ==
    {Case(b, DefaultClock, b.dev_size, 0) :
        b \in [pack_bitmap : BOOLEAN, full_format : BOOLEAN,
               dev_size : {DevSizeAt(i) : i \in 1..MaxGridIdx},
               label : {LabelDefault, HelloLabel}, guid : {None, SomeGuid},
               partition_offset : {BZero}, bytes_per_sector : {512},
               boundary_align : {DEFAULT_BOUNDARY_ALIGNEMENT}]}
    \cup {Case([DefaultBuilder EXCEPT !.bytes_per_sector = bps], DefaultClock, BigPow2(25), 0) :
            bps \in {256, 1024, 2048, 4096}}
    \cup {Case([DefaultBuilder EXCEPT !.dev_size = DevSizeAt(i), !.pack_bitmap = FALSE],
                DefaultClock, DevSizeAt(i), fill) : i \in {5, 6, 8}, fill \in {0, 255}}
    \cup {Case([DefaultBuilder EXCEPT !.dev_size = DevSizeAt(9), !.pack_bitmap = pack,
                                      !.boundary_align = BigPow2(31)],
                DefaultClock, DevSizeAt(9), fill) : pack \in BOOLEAN, fill \in {0, 255}}
    \cup {Case([DefaultBuilder EXCEPT !.partition_offset = Big(512), !.pack_bitmap = pack],
                DefaultClock, BigPow2(25), 0) : pack \in BOOLEAN}
    \cup {Case([DefaultBuilder EXCEPT !.dev_size = OddSize, !.pack_bitmap = FALSE],
                LateClock, OddSize, 0),
          Case(DefaultBuilder, ClockBeforeEpoch, BigPow2(25), 0),
          Case(DefaultBuilder, DefaultClock, BigPow2(24), 0)}

Init ==
    /\ \E c \in FormatCases :
          /\ builder = c.builder
          /\ now = c.now
          /\ device = c.device
    /\ overflow_checks \in BOOLEAN
    /\ pc = "new"
    /\ options = None
    /\ exfat = None
    /\ outcome = None
    /\ root = None
    /\ call = None
    /\ ret = None
    /\ reader = None

\* a step of Exfat::write: the call fn, with result r, takes it from from to
\* to, or ends it with the panic of the call
WriteStep(from, to, fn, r) ==
    /\ pc = from
    /\ device' = r.device
    /\ IF r.status = "Ok"
       THEN /\ pc' = to
            /\ outcome' = IF to = "formatted" THEN [status |-> "Ok"] ELSE outcome
       ELSE /\ pc' = "write_panicked"
            /\ outcome' = [status |-> "Panic", at |-> r.at, fn |-> fn]
    /\ UNCHANGED <<builder, now, overflow_checks, options, root>>
    /\ UNCHANGED libVars

\* Exfat::write up to the clearing of the device
WriteBegin ==
    /\ pc = "solved"
    /\ WriteStep("solved", "cleared", "write", WriteStart(exfat, device))
    /\ UNCHANGED exfat

\* self.write_boot_region(f, MAIN_BOOT_OFFSET)
WriteMainBoot ==
    /\ pc = "cleared"
    /\ WriteStep("cleared", "main_boot_written", "write_boot_region",
                 write_boot_region(exfat, device, MAIN_BOOT_OFFSET, overflow_checks))
    /\ UNCHANGED exfat

\* self.write_boot_region(f, BACKUP_BOOT_OFFSET)
WriteBackupBoot ==
    /\ pc = "main_boot_written"
    /\ WriteStep("main_boot_written", "boot_written", "write_boot_region",
                 write_boot_region(exfat, device, BACKUP_BOOT_OFFSET, overflow_checks))
    /\ UNCHANGED exfat

\* self.write_fat(f)
WriteFat ==
    LET Step(r) ==
            /\ WriteStep("boot_written", "fat_written", "write_fat", r)
            /\ exfat' = IF r.status = "Ok"
                        THEN [exfat EXCEPT !.cluster_count_used = r.count] ELSE exfat
    IN  /\ pc = "boot_written"
        /\ Step(write_fat(exfat, device, overflow_checks))

\* self.write_bitmap(f)
WriteBitmap ==
    /\ pc = "fat_written"
    /\ WriteStep("fat_written", "bitmap_written", "write_bitmap",
                 write_bitmap(exfat, device))
    /\ UNCHANGED exfat

\* self.write_upcase_table(f)
WriteUpcaseTable ==
    /\ pc = "bitmap_written"
    /\ WriteStep("bitmap_written", "uptable_written", "write_upcase_table",
                 Done(write_upcase_table(exfat, device)))
    /\ UNCHANGED exfat

\* self.write_root_dir(f), the end of Exfat::write
WriteRootDir ==
    /\ pc = "uptable_written"
    /\ WriteStep("uptable_written", "formatted", "write_root_dir",
                 Done(write_root_dir(exfat, device)))
    /\ UNCHANGED exfat

\* Root::open on the formatted device
OpenRoot ==
    /\ pc = "formatted"
    /\ root' = Open(device)
    /\ pc' = "opened"
    /\ UNCHANGED <<builder, now, overflow_checks, options, exfat, device, outcome>>
    /\ UNCHANGED libVars

Next ==
    \/ Build
    \/ Solve
    \/ WriteBegin
    \/ WriteMainBoot
    \/ WriteBackupBoot
    \/ WriteFat
    \/ WriteBitmap
    \/ WriteUpcaseTable
    \/ WriteRootDir
    \/ OpenRoot

Spec == Init /\ [][Next]_vars

\* ------------------------------------------------------------------------
\* Properties of the computed geometry
\* ------------------------------------------------------------------------
HasGeometry == exfat.status = "Ok"

\* ceil(x / d) and the rounding of x up to a power of two a, on wide integers
CeilDiv(x, d) == BDivS(BAdd(x, Big(d - 1)), d)
AlignUp(x, a) == BShl(BShr(BAdd(x, BSub(a, Big(1))), ILog2(a)), ILog2(a))
Divides(a, x) == BLowBits(x, ILog2(a)) = BZero

\* the cluster heap offset in bytes as the boot sector states it
HeapBytes(e) == BMulS(e.cluster_heap_offset, 2^(e.bytes_per_sector_shift))

\* C2: every geometry the solver returns has its root directory cluster
\* inside the cluster heap: 2 <= first_cluster_of_root_directory <=
\* cluster_count + 1.
C2_RootInsideHeap ==
    HasGeometry =>
        /\ BLe(Big(2), exfat.first_cluster_of_root_directory)
        /\ BLe(exfat.first_cluster_of_root_directory, BAdd(exfat.cluster_count, Big(1)))

\* C3: in every geometry the solver returns the regions are in order and
\* fit the volume: 24 <= fat_offset, the FATs end at or before the cluster
\* heap, the heap ends inside the volume, and cluster_count <= 0xFFFFFFF5.
C3_RegionsInOrder ==
    HasGeometry =>
        /\ BLe(Big(24), exfat.fat_offset)
        /\ BLe(BAdd(exfat.fat_offset, BMulS(exfat.fat_length, exfat.number_of_fats)),
               exfat.cluster_heap_offset)
        /\ BLe(BAdd(exfat.cluster_heap_offset,
                    BMulS(exfat.cluster_count, 2^(exfat.sectors_per_cluster_shift))),
               exfat.volume_length)
        /\ BLe(exfat.cluster_count, MAX_CLUSTER_COUNT)

\* The values of the solver algorithm for partition offset 0 and an unpacked
\* bitmap, computed in unbounded arithmetic.
SolverValues(o) ==
    LET size == o.dev_size
        bps == o.bytes_per_sector
        cs == IF BLe(size, BMulS(BigPow2(20), 256)) THEN 4096
              ELSE IF BLe(size, BMulS(BigPow2(30), 32)) THEN 32768 ELSE 131072
        fob == AlignUp(Big(24 * bps), o.boundary_align)
        max_clusters == BAdd(BDivS(BSub(BSub(size, fob), Big(9)), cs + 4), Big(1))
        flb == BMulS(CeilDiv(BMulS(BAdd(max_clusters, Big(2)), 4), bps), bps)
        heap == AlignUp(BAdd(fob, flb), o.boundary_align)
        cc == BDivS(BSub(size, heap), cs)
    IN  [volume_length |-> BDivS(size, bps),
         fat_offset |-> BDivS(fob, bps),
         fat_length |-> BDivS(flb, bps),
         cluster_heap_offset |-> BDivS(heap, bps),
         cluster_count |-> cc,
         first_cluster_of_root_directory |->
             BAdd(Big(2 + (5836 + cs - 1) \div cs), CeilDiv(CeilDiv(cc, 8), cs)),
         bytes_per_sector_shift |-> ILog2Int(bps),
         sectors_per_cluster_shift |-> ILog2Int(cs \div bps)]

GeometryOf(e) ==
    [volume_length |-> e.volume_length,
     fat_offset |-> e.fat_offset,
     fat_length |-> e.fat_length,
     cluster_heap_offset |-> e.cluster_heap_offset,
     cluster_count |-> e.cluster_count,
     first_cluster_of_root_directory |-> e.first_cluster_of_root_directory,
     bytes_per_sector_shift |-> e.bytes_per_sector_shift,
     sectors_per_cluster_shift |-> e.sectors_per_cluster_shift]

\* C8: with partition_offset 0 and pack_bitmap false, Exfat::try_from returns
\* exactly the values of the solver algorithm (cluster size by the size
\* thresholds, volume_length, aligned FAT offset, FAT length from
\* max_clusters, aligned cluster heap offset, cluster_count, root cluster).
C8_SolverFormulas ==
    (HasGeometry /\ options.partition_offset = BZero /\ ~options.pack_bitmap)
        => GeometryOf(exfat) = SolverValues(options)

\* what the solver returns for the same options with pack_bitmap cleared
Unpacked == TryFrom([options EXCEPT !.pack_bitmap = FALSE], now, overflow_checks)

\* the number of clusters the packed bitmap takes
BitmapClusters(e) == CeilDiv(e.bitmap_length_bytes, e.bytes_per_cluster)

BothPackings == HasGeometry /\ options.pack_bitmap /\ Unpacked.status = "Ok"

\* the offset of the cluster heap in bytes: try_from keeps it equal to
\* bitmap_offset_bytes, also through the pack-bitmap branch
HeapOffsetBytes(e) == e.bitmap_offset_bytes

PackingDelta(packed, unpacked, B) ==
    /\ packed.volume_length = unpacked.volume_length
    /\ packed.fat_offset = unpacked.fat_offset
    /\ packed.fat_length = unpacked.fat_length
    /\ BAdd(HeapOffsetBytes(packed), BMulS(B, packed.bytes_per_cluster))
           = HeapOffsetBytes(unpacked)
    /\ packed.cluster_count = BAdd(unpacked.cluster_count, B)
    /\ packed.bitmap_length_bytes = CeilDiv(packed.cluster_count, 8)
    /\ (/\ options.dev_size = BigPow2(28) /\ options.bytes_per_sector = 512
        /\ options.boundary_align = BigPow2(20) /\ options.partition_offset = BZero)
       => /\ unpacked.cluster_heap_offset = Big(4096)
          /\ unpacked.cluster_count = Big(65024)
          /\ packed.cluster_heap_offset = Big(4080)
          /\ packed.cluster_count = Big(65026)

\* C9: for the same options, packing the bitmap leaves volume_length,
\* fat_offset and fat_length as they are without packing, moves the cluster
\* heap down by B clusters and adds B clusters to cluster_count, where B, the
\* clusters of the packed bitmap, is a fixed point: bitmap_length_bytes is
\* ceil(cluster_count / 8) of the packed count and B is
\* ceil(bitmap_length_bytes / cluster_size).  256 MiB: heap 4096, count
\* 65024 become 4080 and 65026.
C9_PackingDelta ==
    BothPackings => PackingDelta(exfat, Unpacked, BitmapClusters(exfat))

\* C10 as stated: with partition_offset 0, for pack_bitmap false and true
\* alike, cluster_heap_offset * bytes_per_sector is a multiple of
\* boundary_align.
C10_HeapAligned ==
    (HasGeometry /\ options.partition_offset = BZero)
        => Divides(options.boundary_align, HeapBytes(exfat))

\* C10 amended: with partition_offset 0 the cluster heap starts on a multiple
\* of boundary_align when pack_bitmap is false; when pack_bitmap is true it
\* is the end of the packed bitmap, B clusters after the start of the heap,
\* that is a multiple of boundary_align.
C10_HeapAlignedAfterBitmap ==
    (HasGeometry /\ options.partition_offset = BZero)
        => IF options.pack_bitmap
           THEN Divides(options.boundary_align,
                        BAdd(HeapBytes(exfat),
                             BMulS(BitmapClusters(exfat), exfat.bytes_per_cluster)))
           ELSE Divides(options.boundary_align, HeapBytes(exfat))

\* a packed 256 MiB volume: the heap starts at sector 4080, 16 sectors
\* below the 1 MiB boundary
C10_Witness ==
    /\ HasGeometry /\ options.pack_bitmap /\ options.partition_offset = BZero
    /\ options.dev_size = BigPow2(28)
    /\ options.boundary_align = BigPow2(20)
    /\ exfat.cluster_heap_offset = Big(4080)
    /\ exfat.cluster_count = Big(65026)

\* ------------------------------------------------------------------------
\* The device after Exfat::write
\* ------------------------------------------------------------------------
Formatted == pc \in {"formatted", "opened"}

\* sector k of the device
Sector(k) ==
    ReadExact(device, Big(options.bytes_per_sector * k), options.bytes_per_sector)

\* C1: for options the solver accepts and a device of dev_size bytes,
\* Exfat::write succeeds and Root::open of the result succeeds, with the
\* label of the options and no items.
C1_FormatOpenRoundTrip ==
    (HasGeometry /\ device.orig = options.dev_size /\ pc \in {"write_panicked", "opened"})
        => /\ pc = "opened"
           /\ root.status = "Ok"
           /\ root.volume_label = [status |-> "Some", label |-> options.label]
           /\ root.items = <<>>

\* the wrapping fold of the sectors first..last of the device
RECURSIVE FoldSectors(_, _, _)
FoldSectors(c, first, last) ==
    IF first > last THEN c
    ELSE FoldSectors(FoldRange(c, Sector(first), 0, options.bytes_per_sector, {}, FALSE),
                     first + 1, last)

\* the checksum of the boot region at sector s, from the device
RegionChecksum(s) ==
    FoldSectors(FoldRange(ChecksumNew, Sector(s), 0, options.bytes_per_sector,
                          {106, 107, 112}, FALSE),
                s + 1, s + 10)

\* a sector of copies of the little-endian word of c
ChecksumSector(c) ==
    [i \in 1..options.bytes_per_sector |-> ChecksumBytes(c)[((i - 1) % 4) + 1]]

\* C4: after write_boot_region at sector s, sector s + 11 is filled with the
\* little-endian word of the checksum folded over sectors s..s+10 of the
\* device without bytes 106, 107 and 112 of the boot sector; the fold wraps
\* and never aborts.
C4_BootChecksum ==
    /\ pc = "main_boot_written" =>
           Sector(MAIN_BOOT_OFFSET + 11) = ChecksumSector(RegionChecksum(MAIN_BOOT_OFFSET))
    /\ pc = "boot_written" =>
           Sector(BACKUP_BOOT_OFFSET + 11) = ChecksumSector(RegionChecksum(BACKUP_BOOT_OFFSET))
    /\ ~(/\ outcome.status = "Panic"
         /\ outcome.fn = "write_boot_region"
         /\ outcome.at = "attempt to add with overflow")

\* C5: after a successful Exfat::write sectors 12..23 equal sectors 0..11.
C5_BackupEqualsMain ==
    Formatted => \A k \in 0..11 : Sector(BACKUP_BOOT_OFFSET + k) = Sector(k)

\* the byte position of the root directory cluster by the boot sector
RootPosition ==
    BAdd(BMulS(exfat.cluster_heap_offset, options.bytes_per_sector),
         BMulS(BSub(exfat.first_cluster_of_root_directory, Big(2)), exfat.bytes_per_cluster))

\* directory entry i of the root directory cluster
RootEntry(i) == ReadExact(device, BAdd(RootPosition, Big(32 * i)), 32)

\* C6: after a successful Exfat::write the root directory cluster, which lies
\* at root_offset_bytes, holds the volume label entry (0x83, length, 22
\* bytes), the volume GUID entry (0xA0) or its placeholder (0x20), the
\* allocation bitmap entry (0x81, first cluster 2, bitmap_length_bytes), the
\* up-case table entry (0x82, checksum 0xE619D30D, uptable_start_cluster,
\* 5836 bytes) and then an entry of type 0x00.
C6_RootDirectoryEntries ==
    Formatted =>
        /\ RootPosition = exfat.root_offset_bytes
        /\ RootEntry(0)[1] = 131
        /\ RootEntry(0)[2] = options.label.len
        /\ SubSeq(RootEntry(0), 3, 24) = options.label.bytes
        /\ RootEntry(1)[1] = IF options.guid.status = "Some" THEN 160 ELSE 32
        /\ RootEntry(2)[1] = 129
        /\ SubSeq(RootEntry(2), 21, 32) = Le4(Big(2)) \o Le8(exfat.bitmap_length_bytes)
        /\ RootEntry(3)[1] = 130
        /\ SubSeq(RootEntry(3), 5, 8) = <<13, 211, 25, 230>>
        /\ SubSeq(RootEntry(3), 21, 32) = Le4(exfat.uptable_start_cluster) \o Le8(Big(5836))
        /\ RootEntry(4)[1] = 0

\* entry i of the FAT on the device
FatAt(i) ==
    FromLe4(ReadExact(device,
                      BAdd(BMulS(exfat.fat_offset, options.bytes_per_sector), Big(4 * i)),
                      4))

\* a chain of n clusters from first: each entry holds the next index, the
\* last one 0xFFFFFFFF
Links(first, n) ==
    \A k \in 0..(n - 1) :
        FatAt(first + k) = IF k = n - 1 THEN U32_MAX ELSE Big(first + k + 1)

BitmapChain == ToInt(CeilDiv(exfat.bitmap_length_bytes, exfat.bytes_per_cluster))
UptableChain == (5836 + exfat.bytes_per_cluster - 1) \div exfat.bytes_per_cluster

\* C7: after write_fat entry 0 is 0xFFFFFFF8, entry 1 is 0xFFFFFFFF, and
\* from cluster 2 on three chains follow one another, of
\* ceil(bitmap_length_bytes / cluster_size), ceil(5836 / cluster_size) and 1
\* clusters; the second starts at uptable_start_cluster, the third at
\* first_cluster_of_root_directory; cluster_count_used is their total: 4 for
\* 32 MiB and 3 for 512 MiB with 512-byte sectors.
C7_FatChains ==
    pc = "fat_written" =>
        /\ FatAt(0) = BSub(BigPow2(32), Big(8))
        /\ FatAt(1) = U32_MAX
        /\ Links(2, BitmapChain)
        /\ exfat.uptable_start_cluster = Big(2 + BitmapChain)
        /\ Links(2 + BitmapChain, UptableChain)
        /\ exfat.first_cluster_of_root_directory = Big(2 + BitmapChain + UptableChain)
        /\ Links(2 + BitmapChain + UptableChain, 1)
        /\ exfat.cluster_count_used = Big(BitmapChain + UptableChain + 1)
        /\ (options.bytes_per_sector = 512 /\ options.dev_size = BigPow2(25))
               => exfat.cluster_count_used = Big(4)
        /\ (options.bytes_per_sector = 512 /\ options.dev_size = BigPow2(29))
               => exfat.cluster_count_used = Big(3)

\* the FAT of a 32 MiB volume: the bitmap in cluster 2, the up-case table
\* in clusters 3 and 4, the root directory in cluster 5
C7_Witness ==
    /\ pc = "fat_written"
    /\ options.dev_size = BigPow2(25)
    /\ exfat.cluster_count_used = Big(4)
    /\ FatAt(2) = U32_MAX
    /\ FatAt(3) = Big(4)
    /\ FatAt(4) = U32_MAX
    /\ FatAt(5) = U32_MAX

\* ------------------------------------------------------------------------
\* Alignment of the FAT with a partition offset
\* ------------------------------------------------------------------------

\* fat_offset_bytes as Exfat::try_from computes it for the options
FatOffsetBytes == SolveFatOffset(SolveSizes(options), overflow_checks).fat_offset_bytes

FatStartAligned(fob) ==
    /\ Divides(options.boundary_align, options.partition_offset)
           => Divides(options.boundary_align, fob)
    /\ BAdd(options.partition_offset, fob)
           = AlignUp(BAdd(Big(24 * options.bytes_per_sector), options.partition_offset),
                     options.boundary_align)

\* C11: in every computed geometry whose partition_offset (in bytes) is a
\* multiple of boundary_align, fat_offset_bytes is a multiple of
\* boundary_align; in general partition_offset + fat_offset_bytes is
\* 24 * bytes_per_sector + partition_offset rounded up to boundary_align.
C11_FatOffsetAligned == HasGeometry => FatStartAligned(FatOffsetBytes)

\* ------------------------------------------------------------------------
\* Accepted and rejected requests
\* ------------------------------------------------------------------------

\* the request of C12: 1 MiB at 512-byte sectors, everything else default
OneMiBDefaults ==
    /\ builder.dev_size = BigPow2(20)
    /\ builder.bytes_per_sector = 512
    /\ builder.boundary_align = DEFAULT_BOUNDARY_ALIGNEMENT
    /\ builder.pack_bitmap
    /\ builder.partition_offset = BZero
    /\ now.ok

\* C12: a request of exactly 1 MiB with 512-byte sectors and default options
\* is accepted: Exfat::try_from returns a geometry.
C12_OneMiBAccepted ==
    (OneMiBDefaults /\ pc \notin {"new", "built"}) => exfat.status = "Ok"

\* C13: a request whose bytes_per_sector is not a power of two in 512..4096
\* is rejected with the error kind InvalidBytesPerSector and nothing is
\* written to the device.
C13_InvalidBytesPerSector ==
    (builder.bytes_per_sector \notin {512, 1024, 2048, 4096} /\ pc # "new")
        => /\ pc = "build_failed"
           /\ options.status = "Err"
           /\ options.kind = "InvalidBytesPerSector"
           /\ device.log = <<>>

\* ------------------------------------------------------------------------
\* Calls of library functions.  A call is [fn, arguments]; ret is None until
\* the call has returned.
\* ------------------------------------------------------------------------
MaxLabelLen == 3      \* length up to which every string over LabelChars is tried
MaxLabelRun == 13     \* longest string of one repeated character

\* Label::new on strings of A, e with acute accent, the euro sign and an
\* emoji outside the basic plane: 1, 2, 3 and 4 bytes of UTF-8; 1, 1, 1 and 2
\* code units of UTF-16
LabelCalls ==
    LET LabelChars == {65, 233, 8364, 128512}
        RECURSIVE StringsOver(_)
        StringsOver(n) ==
            IF n = 0 THEN {<<>>}
            ELSE {Append(x, c) : x \in StringsOver(n - 1), c \in LabelChars}
                    \cup StringsOver(n - 1)
    IN  {[fn |-> "Label::new", label |-> str] :
            str \in StringsOver(MaxLabelLen)
                        \cup {Repeat(c, n) : c \in LabelChars, n \in 0..MaxLabelRun}}

\* Label::new(label)
LabelNewCall ==
    /\ call.fn = "Label::new"
    /\ ret = None
    /\ ret' = LabelNew(call.label)
    /\ UNCHANGED <<call, reader>>
    /\ UNCHANGED fmtVars

\* the number of UTF-16 code units of a string
Utf16Units(str) == Len(EncodeUtf16(str)) \div 2

\* C14: Label::new returns None for every string of more than 11 UTF-16 code
\* units, its assertion never fails, and the length byte of an accepted
\* label is the number of UTF-16 code units of the string.
C14_LabelLengthInUtf16Units ==
    (call.fn = "Label::new" /\ ret # None)
        => /\ Utf16Units(call.label) > 11 => ret.status = "None"
           /\ ret.status # "Panic"
           /\ ret.status = "Some" => ret.label.len = Utf16Units(call.label)

\* entries of every type DirEntry::try_from turns into a named variant, with
\* different second to fourth bytes
ChecksumCalls ==
    {[fn |-> "DirEntry::checksum",
      entry |-> <<type, b1, b23[1], b23[2]>> \o Repeat(fill, DIR_ENTRY_SIZE - 4),
      input |-> input] :
        type \in {129, 130, 131, 133, 160, 192, 193, 224, 225}, b1 \in {0, 3}, b23 \in {<<0, 0>>, <<1, 0>>, <<255, 7>>},
        fill \in {0, 255}, input \in {0, 1, 65535}}

\* DirEntry::checksum(input)
ChecksumCall ==
    /\ call.fn = "DirEntry::checksum"
    /\ ret = None
    /\ ret' = [status |-> "Ok", value |-> checksum(call.entry, call.input)]
    /\ UNCHANGED <<call, reader>>
    /\ UNCHANGED fmtVars

\* the sum rotated right and increased by each byte from i on, without the
\* bytes at the positions of skip
RECURSIVE SumExcept(_, _, _, _)
SumExcept(sum, bytes, i, skip) ==
    IF i > Len(bytes) THEN sum
    ELSE SumExcept(IF i \in skip THEN sum ELSE Sum16(sum, bytes[i]), bytes, i + 1, skip)

\* C16: DirEntry::checksum rotates the sum right by one and adds each byte of
\* the entry in order; it leaves out bytes 2 and 3 exactly when the entry is
\* primary (bit 0x40 of the type clear), for every recognised entry type.
C16_EntryChecksum ==
    (call.fn = "DirEntry::checksum" /\ ret # None)
        => ret.value = SumExcept(call.input, call.entry, 1,
                                 IF (call.entry[1] \div 64) % 2 = 0 THEN {3, 4} ELSE {})

\* the UTC offset ParsedFileEntry::try_new takes from a UTC-offset byte
utc_offset(byte) ==
    LET AsI8(v) == IF v >= 128 THEN v - 256 ELSE v
    IN  IF (byte \div 128) % 2 = 1 THEN AsI8(byte % 128) ELSE 0

UtcOffsetCalls ==
    {[fn |-> "utc_offset", field |-> f, byte |-> b] :
        f \in {"create", "last_modified", "last_accessed"}, b \in 0..255}

\* the decoding of one of the three UTC-offset bytes of a file entry
UtcOffsetCall ==
    /\ call.fn = "utc_offset"
    /\ ret = None
    /\ ret' = [status |-> "Ok", value |-> utc_offset(call.byte)]
    /\ UNCHANGED <<call, reader>>
    /\ UNCHANGED fmtVars

\* the low 7 bits of a byte as a two's-complement number of 7 bits
Signed7(byte) == IF (byte % 128) >= 64 THEN (byte % 128) - 128 ELSE byte % 128

\* C20: the decoded UTC offset of each of the three timestamps is 0 when bit
\* 7 of the byte is clear and otherwise the low 7 bits as a 7-bit
\* two's-complement number, so it lies in -64..63 (0xFF: -1, 0xC0: -64).
C20_UtcOffset ==
    (call.fn = "utc_offset" /\ ret # None)
        => /\ ret.value = IF call.byte < 128 THEN 0 ELSE Signed7(call.byte)
           /\ ret.value \in -64..63
           /\ call.byte = 255 => ret.value = -1
           /\ call.byte = 192 => ret.value = -64

\* ReadOffset::read_exact(offset, buffer) with a zeroed buffer of n bytes:
\* read_at is called until the buffer is full or it returns 0, and in both
\* cases Ok(()) is returned.  filled: the bytes that were read.
read_exact(dev, offset, n) ==
    [status |-> "Ok",
     filled |-> IF BLe(dev.orig, offset) THEN 0
                ELSE IF BLe(BAdd(offset, Big(n)), dev.orig) THEN n
                ELSE ToInt(BSub(dev.orig, offset)),
     buffer |-> ReadExact(dev, offset, n)]

\* the bytes the devices of the read calls hold: an entry of a type
\* DirEntry::try_from knows, and one of a type it does not know
DeviceFills == {7, 132}
ReadExactCalls ==
    {[fn |-> "ReadOffset::read_exact",
      device |-> BlankDevice(Big(len), fill),
      offset |-> Big(offset), n |-> n] :
        fill \in DeviceFills,
        len \in {0, 16, 32, 100, 512}, offset \in {0, 16, 31, 32, 90, 100, 200},
        n \in {0, 1, 4, 32, 512}}

\* ReadOffset::read_exact on a device
ReadExactCall ==
    /\ call.fn = "ReadOffset::read_exact"
    /\ ret = None
    /\ ret' = read_exact(call.device, call.offset, call.n)
    /\ UNCHANGED <<call, reader>>
    /\ UNCHANGED fmtVars

\* ------------------------------------------------------------------------
\* ClusterChainReader and DirEntryReader (cluster/reader.rs, entry/reader.rs)
\* over a FAT given as its entries.  reader is
\*   [owner, phase, options, first_cluster, boot, dev, entries, next, chain,
\*    data_length, offset, index, calls, last]
\* owner: "DirEntryReader" or "File", the structure that holds the reader.
\* phase: "new" before try_new, "collect" while try_new collects the
\* ClusterChain, "ready" once try_new returned Ok, "failed" when it returned
\* an error, "panicked" after a panic, "endless" when the ClusterChain has
\* come back to a cluster it yielded before and so never ends, "absent" for
\* a File without clusters (reader: None).  calls: the calls made on a File.
\* ------------------------------------------------------------------------

\* ClusterChain::next returns None
ChainEnds(entries, next) ==
    \/ BLt(next, Big(2))
    \/ BLe(Big(Len(entries)), next)
    \/ entries[ToInt(next) + 1] = FatBad

\* the rest of ClusterChainReader::try_new for a collected chain
TryNewFat(r, cluster_size_bytes) ==
    LET Checked(data_length) ==
            IF data_length > cluster_size_bytes * Len(r.chain)
            THEN [r EXCEPT !.phase = "failed", !.last = Err("InvalidDataLength")]
            ELSE [r EXCEPT !.phase = "ready", !.data_length = data_length]
    IN  IF r.chain = <<>>
        THEN [r EXCEPT !.phase = "failed", !.last = Err("InvalidFirstCluster")]
        ELSE Checked(IF r.options.data_length.status = "Some"
                     THEN r.options.data_length.value
                     ELSE cluster_size_bytes * Len(r.chain))

\* ClusterChainReader::try_new up to the collection of the chain; a
\* contiguous chain is built at once
TryNew(r, cluster_size_bytes) ==
    LET Contiguous(count) ==
            [r EXCEPT !.phase = "ready",
                      !.chain = [i \in 1..count |-> BAdd(r.first_cluster, Big(i - 1))],
                      !.data_length = r.options.data_length.value]
    IN  IF BLt(r.boot.first_cluster_of_root_directory, Big(2))
           \/ BLt(BAdd(r.boot.cluster_count, Big(1)), r.boot.first_cluster_of_root_directory)
        THEN [r EXCEPT !.phase = "panicked", !.last = Panic("Invalid Root Cluster Index")]
        ELSE IF r.options.kind = "Contiguous"
        THEN Contiguous((r.options.data_length.value + cluster_size_bytes - 1)
                            \div cluster_size_bytes)
        ELSE [r EXCEPT !.phase = "collect", !.next = r.first_cluster]

\* one call of ClusterChain::next by the collect of try_new
ChainStep(r) ==
    IF ChainEnds(r.entries, r.next) THEN TryNewFat(r, bytes_per_cluster(r.boot))
    ELSE IF \E i \in 1..Len(r.chain) : r.chain[i] = r.next
    THEN [r EXCEPT !.phase = "endless"]
    ELSE [r EXCEPT !.chain = Append(@, r.next), !.next = r.entries[ToInt(r.next) + 1]]

\* ClusterChainReader::read_exact into a buffer of which want bytes are left:
\* [status, offset, buffer, filled], filled counting the bytes that came from
\* the device
RECURSIVE ChainReadExact(_, _, _, _, _)
ChainReadExact(r, offset, want, buffer, filled) ==
    LET cluster_size == bytes_per_cluster(r.boot)
        Got(amount, got) ==
            ChainReadExact(r, offset + amount, want - amount,
                           buffer \o got.buffer, filled + got.filled)
        From(at, amount) ==
            IF at.status = "None"
            THEN [status |-> "ClusterNotFound", offset |-> offset,
                  buffer |-> buffer, filled |-> filled]
            ELSE Got(amount,
                     read_exact(r.dev, BAdd(at.value, Big(offset % cluster_size)), amount))
        Min3(a, b, c) == IF a <= b /\ a <= c THEN a ELSE IF b <= c THEN b ELSE c
    IN  IF want = 0
        THEN [status |-> "Ok", offset |-> offset, buffer |-> buffer, filled |-> filled]
        ELSE IF offset = r.data_length
        THEN [status |-> "UnexpectedEop", offset |-> offset,
              buffer |-> buffer, filled |-> filled]
        ELSE From(cluster_offset(r.boot, r.chain[offset \div cluster_size + 1]),
                  Min3(want, cluster_size - (offset % cluster_size), r.data_length - offset))

\* DirEntryReader::read
EntryRead(r) ==
    LET cluster_size == bytes_per_cluster(r.boot)
        Current(offset) == r.chain[offset \div cluster_size + 1]
        Parsed(entry) ==
            IF entry[1] \in KnownEntryTypes THEN [status |-> "Ok", kind |-> "", entry |-> entry]
            ELSE Err("InvalidEntry")
        After(got) ==
            IF got.status # "Ok"
            THEN [r EXCEPT !.offset = got.offset,
                           !.last = [status |-> "Err", kind |-> "ReadFailed",
                                     error |-> got.status, filled |-> got.filled]]
            ELSE IF got.offset \div cluster_size >= Len(r.chain)
            THEN [r EXCEPT !.phase = "panicked", !.offset = got.offset,
                           !.last = Panic("index out of bounds")]
            ELSE [r EXCEPT !.offset = got.offset,
                           !.index = IF Current(got.offset) # Current(r.offset)
                                     THEN 0 ELSE @ + 1,
                           !.last = Parsed(got.buffer) @@ [filled |-> got.filled]]
    IN  IF r.offset \div cluster_size >= Len(r.chain)
        THEN [r EXCEPT !.phase = "panicked", !.last = Panic("index out of bounds")]
        ELSE After(ChainReadExact(r, r.offset, DIR_ENTRY_SIZE, <<>>, 0))

\* ClusterChainReader::read into a buffer of n bytes: [status, value,
\* offset, position, buffer, filled]; value is the returned count, position
\* the device offset of the read_exact, filled the bytes that came from the
\* device
ChainRead(r, n) ==
    LET cluster_size == bytes_per_cluster(r.boot)
        Min(a, b) == IF a <= b THEN a ELSE b
        Read(position, amount, got) ==
            [status |-> "Ok", value |-> amount, offset |-> r.offset + amount,
             position |-> position, buffer |-> got.buffer, filled |-> got.filled]
        At(position, amount) == Read(position, amount, read_exact(r.dev, position, amount))
        From(at, remaining) ==
            IF at.status = "None"
            THEN [status |-> "ClusterNotFound", value |-> 0, offset |-> r.offset,
                  position |-> BZero, buffer |-> <<>>, filled |-> 0]
            ELSE At(BAdd(at.value, Big(r.offset % cluster_size)), Min(n, remaining))
    IN  IF n = 0 \/ r.offset = r.data_length
        THEN [status |-> "Ok", value |-> 0, offset |-> r.offset,
              position |-> BZero, buffer |-> <<>>, filled |-> 0]
        ELSE From(cluster_offset(r.boot, r.chain[r.offset \div cluster_size + 1]),
                  Min(cluster_size - (r.offset % cluster_size), r.data_length - r.offset))

\* a seek that moves the offset without the check
seek_unchecked(r, off) ==
    [ok |-> TRUE, reader |-> [r EXCEPT !.offset = ToInt(BLowBits(off, 11))]]

\* ClusterChainReader::seek(off): [ok, reader]
seek(r, off) ==
    IF BLt(Big(r.data_length), off) THEN [ok |-> FALSE, reader |-> r]
    ELSE [ok |-> TRUE, reader |-> [r EXCEPT !.offset = ToInt(off)]]

\* File::seek(pos), pos = [from, neg, abs]: SeekFrom::Start(abs), or End or
\* Current of the i64 with sign neg and magnitude abs.  [status, value,
\* reader]
FileSeek(r, pos) ==
    LET data_length == Big(r.data_length)
        position == Big(r.offset)
        Sought(o, sought) ==
            IF ~sought.ok THEN [status |-> "Panic", at |-> "assertion failed: r.seek(o)",
                                reader |-> sought.reader]
            ELSE [status |-> "Ok", value |-> o, reader |-> sought.reader]
        Seek(o) ==
            IF o.status # "Ok" THEN [status |-> "Err", kind |-> "InvalidInput", reader |-> r]
            ELSE Sought(o.value, seek(r, o.value))
        CheckedSub(a, b) ==
            IF BLt(a, b) THEN Err("InvalidInput") ELSE [status |-> "Ok", value |-> BSub(a, b)]
        SaturatingAdd(sum) == IF FitsU64(sum) THEN sum ELSE U64_MAX
    IN  IF r.phase = "absent" THEN [status |-> "Ok", value |-> BZero, reader |-> r]
        ELSE CASE pos.from = "Start" ->
                    Seek([status |-> "Ok", value |-> BMin(pos.abs, data_length)])
               [] pos.from = "End" ->
                    Seek(IF ~pos.neg THEN [status |-> "Ok", value |-> data_length]
                         ELSE CheckedSub(data_length, pos.abs))
               [] OTHER ->
                    Seek(IF pos.neg THEN CheckedSub(position, pos.abs)
                         ELSE [status |-> "Ok",
                               value |-> BMin(SaturatingAdd(BAdd(position, pos.abs)),
                                              data_length)])

MaxCalls == 2      \* calls made on one File

MaxFatEntries == 5      \* entries of the FAT, the two reserved ones included

\* a reader before try_new, on a volume of 512-byte clusters with the heap
\* from sector 2 on
NewReader(owner, chain_options, first_cluster, entries, dev) ==
    [owner |-> owner, phase |-> "new", options |-> chain_options,
     first_cluster |-> Big(first_cluster),
     boot |-> [bytes_per_sector_shift |-> 9, sectors_per_cluster_shift |-> 0,
               cluster_heap_offset |-> Big(2), cluster_count |-> Big(MaxFatEntries - 2),
               first_cluster_of_root_directory |-> Big(2)],
     dev |-> dev, entries |-> entries, next |-> Big(0), chain |-> <<>>,
     data_length |-> 0, offset |-> 0, index |-> 0, calls |-> 0, last |-> None]

\* the readers of directories: every FAT of MaxFatEntries entries read to its default length, and
\* the chain 2 -> 3 and a contiguous run read with a given length from
\* devices that end behind, inside and before the heap
Readers ==
    LET New(chain_options, first_cluster, entries, dev) ==
            NewReader("DirEntryReader", chain_options, first_cluster, entries, dev)
        Fat(data_length) == [kind |-> "Fat", data_length |-> data_length]
        Some(v) == [status |-> "Some", value |-> v]
        FatValues == {FatEof, FatBad} \cup {Big(i) : i \in {0} \cup (2..MaxFatEntries)}
        Reserved == <<FatMediaType, FatEof>>
        Free == [i \in 1..(MaxFatEntries - 2) |-> FatEof]
        HeapEnd == 512 * MaxFatEntries
        Devices == {BlankDevice(Big(len), fill) :
                        len \in {HeapEnd, 1700, 1030}, fill \in DeviceFills}
    IN       {New(Fat(None), first, Reserved \o tail, BlankDevice(Big(HeapEnd), 7)) :
                 first \in {2, 3, MaxFatEntries},
                 tail \in [1..(MaxFatEntries - 2) -> FatValues]}
        \cup {New(Fat(Some(v)), 2, Reserved \o [Free EXCEPT ![1] = Big(3)], dev) :
                 v \in {0, 40, 512, 1024, 1025}, dev \in Devices}
        \cup {New([kind |-> "Contiguous", data_length |-> Some(v)], first,
                  Reserved \o Free, dev) :
                 v \in {0, 32, 500, 512, 1024}, first \in {1, 2}, dev \in Devices}

\* the files: File::try_new gives the reader the valid data length of the
\* stream extension; the heap of the device holds byte j % 251 at its offset
\* j, or the device ends inside the heap
Files ==
    LET Heap == WriteAll(BlankDevice(Big(512 * MaxFatEntries), 0), Big(1024),
                         [j \in 1..(512 * (MaxFatEntries - 2)) |-> (j - 1) % 251])
        Some(v) == [status |-> "Some", value |-> v]
        Entries == <<FatMediaType, FatEof, Big(3)>> \o [i \in 1..(MaxFatEntries - 3) |-> FatEof]
    IN  {NewReader("File", [kind |-> kind, data_length |-> Some(v)], first, Entries, dev) :
            kind \in {"Fat", "Contiguous"}, v \in {0, 40, 512, 1024},
            first \in {0, 1, 2}, dev \in {Heap, BlankDevice(Big(1700), 7)}}

\* File::try_new and ClusterChainReader::try_new, up to the collection of a
\* FAT chain
ReaderTryNew ==
    /\ call.fn = "reader"
    /\ reader.phase = "new"
    /\ reader' = IF reader.owner = "File" /\ reader.first_cluster = BZero
                 THEN [reader EXCEPT !.phase = "absent"]
                 ELSE TryNew(reader, bytes_per_cluster(reader.boot))
    /\ UNCHANGED <<call, ret>>
    /\ UNCHANGED fmtVars

\* the next step of the collection of the FAT chain, and behind the last one
\* the rest of try_new
ReaderChainNext ==
    /\ call.fn = "reader"
    /\ reader.phase = "collect"
    /\ reader' = ChainStep(reader)
    /\ UNCHANGED <<call, ret>>
    /\ UNCHANGED fmtVars

\* DirEntryReader::read on the reader try_new returned
ReaderRead ==
    /\ call.fn = "reader"
    /\ reader.owner = "DirEntryReader"
    /\ reader.phase = "ready"
    /\ reader.last.status \notin {"Err", "Panic"}
    /\ reader' = EntryRead(reader)
    /\ UNCHANGED <<call, ret>>
    /\ UNCHANGED fmtVars

\* a call on a File leaves it in r, with the record of the call in last
FileCalled(r, record) ==
    /\ reader' = [r EXCEPT !.calls = reader.calls + 1,
                           !.last = record @@ [before |-> reader.offset]]
    /\ UNCHANGED <<call, ret>>
    /\ UNCHANGED fmtVars

FileReady ==
    /\ call.fn = "reader"
    /\ reader.owner = "File"
    /\ reader.phase \in {"ready", "absent"}
    /\ reader.calls < MaxCalls
    /\ reader.last.status # "Panic"

\* File::read(buf) with a buffer of n bytes: ClusterChainReader::read
FileRead ==
    /\ FileReady
    /\ \E n \in {0, 32, 600} :
          LET Then(got) ==
                  FileCalled([reader EXCEPT !.offset = got.offset],
                             [op |-> "read", n |-> n] @@ got)
          IN  IF reader.phase = "absent"
              THEN FileCalled(reader, [op |-> "read", n |-> n, status |-> "Ok", value |-> 0,
                                       position |-> BZero, buffer |-> <<>>, filled |-> 0])
              ELSE Then(ChainRead(reader, n))

\* ClusterChainReader::seek(off) on the reader of a File
ReaderSeek ==
    /\ FileReady
    /\ reader.phase = "ready"
    /\ \E off \in {40, 1025} :
          LET Then(sought) ==
                  FileCalled(sought.reader,
                             [op |-> "seek", off |-> off, status |-> "Ok", ok |-> sought.ok])
          IN  Then(seek(reader, Big(off)))

\* File::rewind: ClusterChainReader::rewind
FileRewind ==
    /\ FileReady
    /\ FileCalled(IF reader.phase = "absent" THEN reader ELSE [reader EXCEPT !.offset = 0],
                  [op |-> "rewind", status |-> "Ok"])

\* File::seek(pos), pos being SeekFrom::Start, End or Current with an
\* argument of the sign neg and the magnitude abs, up to u64::MAX, i64::MIN
\* and i64::MAX
FileSeekCall ==
    LET I64Min == BigPow2(63)
        I64Max == BSub(BigPow2(63), Big(1))
        SeekFroms ==
                 {[from |-> "Start", neg |-> FALSE, abs |-> v] : v \in {Big(40), U64_MAX}}
            \cup {[from |-> "End", neg |-> TRUE, abs |-> v] : v \in {Big(40), I64Min}}
            \cup {[from |-> "End", neg |-> FALSE, abs |-> Big(5)]}
            \cup {[from |-> "Current", neg |-> TRUE, abs |-> v] : v \in {Big(8), I64Min}}
            \cup {[from |-> "Current", neg |-> FALSE, abs |-> v] : v \in {Big(8), I64Max}}
    IN  /\ FileReady
        /\ \E pos \in SeekFroms :
              LET Then(sought) ==
                      FileCalled(sought.reader,
                                 [op |-> "File::seek", pos |-> pos]
                                    @@ [x \in DOMAIN sought \ {"reader"} |-> sought[x]])
              IN  Then(FileSeek(reader, pos))

\* ------------------------------------------------------------------------
\* Root::open on volumes put together by hand: 512-byte sectors and
\* clusters, one sector for each of two FATs at sectors 1 and 2, a heap of
\* four clusters from sector 3 on, the root directory in cluster 2
\* ------------------------------------------------------------------------
MaxDirLen == 4       \* entries of a root directory before its zeroes

\* the volume of a call: [number_of_fats, volume_flags, sound, dir], sound
\* being the FATs (0, 1) that are sound, dir the entries of the root
\* directory.  In a sound FAT cluster 2 ends its chain, in a damaged one it
\* is marked bad.
RootImage(c) ==
    LET DirEntryOf(kind) ==
            CASE kind = "bitmap0" -> BitmapEntry(Big(1))
              [] kind = "bitmap1" -> [BitmapEntry(Big(1)) EXCEPT ![2] = 1]
              [] kind = "upcase"  -> UpcaseTableEntry(Big(3))
              [] kind = "invalid" -> <<128>> \o Repeat(0, 31)
              [] OTHER            -> new_unused(VOLUME_GUID_ENTRY_TYPE)
        RECURSIVE DirBytes(_)
        DirBytes(dir) ==
            IF dir = <<>> THEN <<>> ELSE DirEntryOf(Head(dir)) \o DirBytes(Tail(dir))
        FatSector(sound) ==
            Le4(FatMediaType) \o Le4(FatEof) \o Le4(IF sound THEN FatEof ELSE FatBad)
            \o Le4(FatEof)
        \* the main boot sector, with the fields Root::open reads
        RootBootSector ==
            <<235, 118, 144>> \o FILESYSTEM_NAME \o Repeat(0, 69)
            \o Le4(Big(1)) \o Le4(Big(1)) \o Le4(Big(3)) \o Le4(Big(4)) \o Le4(Big(2))
            \o Repeat(0, 6) \o Le2(c.volume_flags)
            \o <<9, 0, c.number_of_fats, DRIVE_SELECT>>
            \o Repeat(0, 398) \o <<85, 170>>
    IN  WriteAll(WriteAll(WriteAll(WriteAll(BlankDevice(Big(3584), 0),
                                            BZero, RootBootSector),
                                   Big(512), FatSector(0 \in c.sound)),
                          Big(1024), FatSector(1 \in c.sound)),
                 Big(1536), DirBytes(c.dir))

\* root directories of up to MaxDirLen entries: bitmap entries of index 0
\* and 1, up-case table entries, entries of type 0x80 and unused entries
RootOpenCalls ==
    LET RECURSIVE DirsOf(_)
        DirsOf(n) ==
            IF n = 0 THEN {<<>>}
            ELSE {Append(d, k) : d \in DirsOf(n - 1),
                                 k \in {"bitmap0", "bitmap1", "upcase", "invalid", "unused"}}
                    \cup DirsOf(n - 1)
    IN  {[fn |-> "Root::open", number_of_fats |-> nf, volume_flags |-> flags,
          sound |-> sound, dir |-> dir] :
            nf \in {1, 2}, flags \in {0, 1}, sound \in {{0, 1}, {0}, {1}},
            dir \in DirsOf(MaxDirLen)}

\* Root::open(device)
RootOpenCall ==
    /\ call.fn = "Root::open"
    /\ ret = None
    /\ ret' = Open(RootImage(call))
    /\ UNCHANGED <<call, reader>>
    /\ UNCHANGED fmtVars

\* ------------------------------------------------------------------------
\* ParsedFileEntry::try_new (dir/entry/parsed.rs): the entries of a file set
\* after its file entry, as DirEntryReader::read yields them
\* ------------------------------------------------------------------------

\* String::from_utf16: strict decoding, an unpaired surrogate is an error
RECURSIVE from_utf16(_)
from_utf16(units) ==
    LET High(u) == u >= 55296 /\ u <= 56319
        Low(u) == u >= 56320 /\ u <= 57343
        Push(cp, rest) ==
            IF rest.status = "Ok" THEN [status |-> "Ok", chars |-> <<cp>> \o rest.chars]
            ELSE rest
    IN  IF units = <<>> THEN [status |-> "Ok", chars |-> <<>>]
        ELSE IF High(units[1])
        THEN IF Len(units) >= 2 /\ Low(units[2])
             THEN Push(65536 + (units[1] - 55296) * 1024 + (units[2] - 56320),
                       from_utf16(SubSeq(units, 3, Len(units))))
             ELSE Err("FromUtf16Error")
        ELSE IF Low(units[1]) THEN Err("FromUtf16Error")
        ELSE Push(units[1], from_utf16(Tail(units)))

\* StreamExtensionEntry::valid
StreamExtensionValid(e) ==
    /\ ~((e.first_cluster = 0 /\ e.data_len # 0) \/ e.first_cluster < 2)
    /\ e.general_secondary_flags % 2 = 1
    /\ e.name_length > 0
    /\ e.valid_data_length <= e.data_len

\* ParsedFileEntry::try_new(file_entry, reader), without the timestamps
ParsedFileEntryTryNew(file_entry, entries) ==
    LET Read(i) == IF i <= Len(entries) THEN entries[i] ELSE [type |-> "EndOfDirectory"]
        RECURSIVE Name(_, _, _)
        Name(names, byte_len, name) ==
            LET Part(part, raw_len) ==
                    IF part.status = "Ok"
                    THEN Name(Tail(names), byte_len - raw_len, name \o part.chars)
                    ELSE Err("InvalidFileName")
                Raw(entry, raw_len) ==
                    IF entry.general_secondary_flags % 2 = 1 THEN Err("InvalidFileName")
                    ELSE IF raw_len % 2 # 0 THEN Err("InvalidFileName")
                    ELSE Part(from_utf16([i \in 1..(raw_len \div 2) |->
                                            entry.file_name[2 * i - 1]
                                                + 256 * entry.file_name[2 * i]]),
                              raw_len)
            IN  IF names = <<>> THEN [status |-> "Ok", name |-> name]
                ELSE Raw(Head(names), IF byte_len < 30 THEN byte_len ELSE 30)
        Names(stream, name_count) ==
            LET Built(named) ==
                    IF named.status = "Ok"
                    THEN [status |-> "Ok", name |-> named.name,
                          stream_extension_entry |-> stream]
                    ELSE named
            IN  IF \E i \in 1..name_count : Read(1 + i).type # "FileName"
                THEN Err("NoFileName")
                ELSE IF name_count # (stream.name_length + 14) \div 15
                THEN Err("WrongFileNameEntries")
                ELSE Built(Name([i \in 1..name_count |-> Read(1 + i)],
                                2 * stream.name_length, <<>>))
        Stream(stream) ==
            IF stream.type # "StreamExtension" THEN Err("NoStreamExtension")
            ELSE IF ~StreamExtensionValid(stream)
                    \/ (file_entry.is_directory
                            /\ stream.valid_data_length # stream.data_len)
            THEN Err("InvalidStreamExtension")
            ELSE Names(stream, file_entry.secondary_count - 1)
    IN  IF file_entry.secondary_count < 1 THEN Err("NoStreamExtension")
        ELSE IF file_entry.secondary_count < 2 THEN Err("NoFileName")
        ELSE Stream(Read(1))

\* file sets: a stream extension and the file-name entries that carry the
\* code units of a name, 15 to an entry, the last one filled up with
\* zeroes.  The names: a run of A, then the two units of an emoji, one of
\* its units alone, an e with acute accent or nothing, then B or nothing.
FileSetCalls ==
    LET Names == {Repeat(65, k) \o mid \o Repeat(66, m) :
                    k \in {0, 1, 13, 14, 15, 16, 29},
                    mid \in {<<55357, 56832>>, <<55357>>, <<56832>>, <<233>>, <<>>},
                    m \in {0, 1}}
        Streams == {[type |-> "StreamExtension", general_secondary_flags |-> f,
                     first_cluster |-> 5, data_len |-> 100, valid_data_length |-> v] :
                        f \in {0, 1}, v \in {40, 100}}
        Unit(units, i) == IF i <= Len(units) THEN units[i] ELSE 0
        FileNameEntries(units, flags) ==
            [k \in 1..((Len(units) + 14) \div 15) |->
                [type |-> "FileName", general_secondary_flags |-> flags,
                 file_name |-> [j \in 1..30 |->
                                  IF j % 2 = 1
                                  THEN Unit(units, 15 * (k - 1) + (j + 1) \div 2) % 256
                                  ELSE Unit(units, 15 * (k - 1) + j \div 2) \div 256]]]
    IN  {[fn |-> "ParsedFileEntry::try_new", name |-> name,
          is_directory |-> d, name_flags |-> nf,
          secondary_count |-> (Len(name) + 14) \div 15 + extra,
          entries |-> <<[name_length |-> Len(name)] @@ stream>>
                          \o FileNameEntries(name, nf)] :
            name \in Names, stream \in Streams, d \in BOOLEAN, nf \in {0, 1},
            extra \in {0, 1, 2}}

\* ParsedFileEntry::try_new on the entries of the file set
FileSetCall ==
    /\ call.fn = "ParsedFileEntry::try_new"
    /\ ret = None
    /\ ret' = ParsedFileEntryTryNew(
                  [secondary_count |-> call.secondary_count,
                   is_directory |-> call.is_directory],
                  call.entries)
    /\ UNCHANGED <<call, reader>>
    /\ UNCHANGED fmtVars

\* the library calls: one call of a function, or the life of one reader
InitLib ==
    /\ builder = None /\ now = None /\ overflow_checks \in BOOLEAN
    /\ pc = "lib" /\ options = None /\ exfat = None
    /\ device = BlankDevice(Big(0), 0) /\ outcome = None /\ root = None
    /\ ret = None
    /\ \/ call \in LabelCalls \cup ChecksumCalls \cup UtcOffsetCalls \cup ReadExactCalls
                    \cup RootOpenCalls \cup FileSetCalls
          /\ reader = None
       \/ call = [fn |-> "reader"] /\ reader \in Readers \cup Files

NextLib ==
    \/ LabelNewCall
    \/ ChecksumCall
    \/ UtcOffsetCall
    \/ ReadExactCall
    \/ ReaderTryNew
    \/ ReaderChainNext
    \/ ReaderRead
    \/ FileRead
    \/ ReaderSeek
    \/ FileRewind
    \/ FileSeekCall
    \/ RootOpenCall
    \/ FileSetCall

SpecLib == InitLib /\ [][NextLib]_vars

\* C19: read_exact returns Ok only when every byte of the buffer was filled,
\* and a read of zero bytes before the buffer is full gives UnexpectedEop:
\* for ReadOffset::read_exact on a device and for the read_exact of the
\* ClusterChainReader that DirEntryReader::read calls.
C19_ReadExactFillsBuffer ==
    /\ (call.fn = "ReadOffset::read_exact" /\ ret # None)
          => /\ ret.status = "Ok" => ret.filled = call.n
             /\ ret.filled < call.n => ret.status = "Err" /\ ret.kind = "UnexpectedEop"
    /\ (call.fn = "reader" /\ reader.phase = "ready" /\ reader.last # None)
          => /\ reader.last.kind # "ReadFailed" => reader.last.filled = DIR_ENTRY_SIZE
             /\ reader.last.filled < DIR_ENTRY_SIZE
                    => reader.last.kind = "ReadFailed" /\ reader.last.error = "UnexpectedEop"

\* C17: DirEntryReader::read never indexes the chain out of bounds, also when
\* it reads the last 32-byte slot of the chain or reads from a contiguous
\* chain of data length 0: ClusterChainReader::current is only evaluated
\* while offset / cluster_size is below the length of the chain.
C17_CurrentInBounds ==
    call.fn = "reader" => ~(reader.phase = "panicked" /\ reader.last.at = "index out of bounds")

\* C18: the iteration of a ClusterChain ends for every FAT and first
\* cluster: no cluster is yielded twice, and every yielded cluster i has
\* 2 <= i < entries.len().
C18_ChainTerminates ==
    call.fn = "reader"
        => /\ reader.phase # "endless"
           /\ \A i, j \in 1..Len(reader.chain) : reader.chain[i] = reader.chain[j] => i = j
           /\ reader.options.kind = "Fat"
                => \A i \in 1..Len(reader.chain) :
                      BLe(Big(2), reader.chain[i]) /\ BLt(reader.chain[i], Big(Len(reader.entries)))

\* C15: for every supported bytes_per_sector (512, 1024, 2048, 4096)
\* Exfat::write ends without a failed assertion: the boot sector handed to
\* Checksum::boot_sector has bytes_per_sector bytes.
C15_WriteWithoutAssertionFailure ==
    (exfat.status = "Ok" /\ exfat.format_options.bytes_per_sector \in {512, 1024, 2048, 4096})
        => /\ Len(BootSectorNew(exfat)) = exfat.format_options.bytes_per_sector
           /\ ~(outcome.status = "Panic" /\ outcome.fn = "write_boot_region"
                    /\ outcome.at = "assertion left == right failed")

\* the aligned cluster-heap byte offset of try_from before it is narrowed to
\* 32 bits, from the values g of the stages before
HeapOffsetWide(g) ==
    LET Aligned(fat_end) ==
            BSub(WrapU64(NextMultipleOf(WrapU64(fat_end), g.format_options.boundary_align)),
                 g.partition_offset)
    IN  Aligned(BAdd(BAdd(g.partition_offset, g.fat_offset_bytes),
                     BMulS(g.fat_length_bytes, g.number_of_fats)))

\* C21: Exfat::try_from never returns a geometry built from a truncated or
\* wrapped intermediate value: when it returns Ok the aligned heap offset fits
\* 32 bits before it is narrowed, and no operation of the run overflowed
\* (with overflow checks the same options do not panic).
C21_NoSilentTruncation ==
    (pc = "solved" /\ exfat.status = "Ok")
        => /\ FitsU32(HeapOffsetWide(SolveFatLength(SolveFatOffset(SolveSizes(options),
                                                                   overflow_checks),
                                                    overflow_checks)))
           /\ TryFrom(options, now, TRUE).status # "Panic"

\* C22: the PartitionOffset field of the written boot sector (bytes 64..71)
\* is the partition offset in sectors, partition_offset / bytes_per_sector.
C22_PartitionOffsetInSectors ==
    pc \in {"main_boot_written", "boot_written", "fat_written", "bitmap_written",
            "uptable_written", "formatted", "opened"}
        => ReadExact(device, Big(64), 8)
             = Le8(BDivS(options.partition_offset, options.bytes_per_sector))

\* byte k of an allocation bitmap whose first used bits are set
BitmapByte(used, k) ==
    IF 8 * k + 8 <= used THEN 255
    ELSE IF 8 * k < used THEN 2^(used - 8 * k) - 1
    ELSE 0

\* the bytes from the start of the bitmap to the end of its last cluster
BitmapRegion(meta, dev) ==
    ReadExact(dev, meta.bitmap_offset_bytes,
              ToInt(NextMultipleOf(meta.bitmap_length_bytes, Big(meta.bytes_per_cluster))))

\* C23: write_bitmap runs after write_fat and never indexes its buffer out of
\* bounds; in the finished image bit i of the bitmap is 1 exactly when
\* i < cluster_count_used, the count write_fat recorded, and the padding up
\* to the end of the bitmap's last cluster is 0.
C23_BitmapMarksUsedClusters ==
    /\ ~(outcome.status = "Panic" /\ outcome.fn = "write_bitmap")
    /\ pc \in {"formatted", "opened"}
          => LET Marked(bytes, used) ==
                     \A k \in 1..Len(bytes) : bytes[k] = BitmapByte(used, k - 1)
             IN  Marked(BitmapRegion(exfat, device), ToInt(exfat.cluster_count_used))

\* C24: for every computed geometry, packed or not, the FAT has room for an
\* entry of every cluster of the heap and the two reserved entries:
\* fat_length * bytes_per_sector >= 4 * (cluster_count + 2).
C24_FatHoldsEveryCluster ==
    HasGeometry
        => BLe(BMulS(BAdd(exfat.cluster_count, Big(2)), 4),
               BMulS(exfat.fat_length, exfat.format_options.bytes_per_sector))

\* the call a File made last
FileLast(op) ==
    /\ call.fn = "reader"
    /\ reader.owner = "File"
    /\ "op" \in DOMAIN reader.last
    /\ reader.last.op = op

\* what ClusterChainReader::read is to do at offset o with a buffer of n
\* bytes: the count, and the device position of its first byte
ReadCount(r, o, n) ==
    LET Min3(a, b, c) == IF a <= b /\ a <= c THEN a ELSE IF b <= c THEN b ELSE c
    IN  Min3(n, 512 - (o % 512), r.data_length - o)

ReadPosition(r, o) == BAdd(cluster_offset(r.boot, r.chain[o \div 512 + 1]).value, Big(o % 512))

\* C25: ClusterChainReader::read with a non-empty buffer at offset
\* o < data_length transfers exactly n = min(buffer length, cluster_size -
\* o mod cluster_size, data_length - o) bytes from device position
\* cluster_offset(chain[o / cluster_size]) + o mod cluster_size and advances
\* the offset by n; it returns 0 and changes nothing for an empty buffer or
\* at o = data_length, and a failed read leaves the offset as it was.
C25_ReadTransfersClampedCount ==
    (FileLast("read") /\ reader.phase = "ready")
        => LET Read(last, o) ==
                   IF last.n = 0 \/ o = reader.data_length
                   THEN last.status = "Ok" /\ last.value = 0 /\ reader.offset = o
                   ELSE IF last.status # "Ok" THEN reader.offset = o
                   ELSE /\ last.value = ReadCount(reader, o, last.n)
                        /\ reader.offset = o + last.value
                        /\ last.position = ReadPosition(reader, o)
                        /\ last.filled = last.value
                        /\ last.buffer = ReadExact(reader.dev, ReadPosition(reader, o),
                                                   last.value)
           IN  Read(reader.last, reader.last.before)

\* C26: the offset of a ClusterChainReader stays within 0..data_length
\* through read, read_exact, seek and rewind; seek(off) succeeds and sets the
\* offset exactly when off <= data_length and otherwise leaves it; rewind
\* sets it to 0; File::seek computes a target within 0..data_length or
\* returns InvalidInput, so its assertion on the reader's seek never fails.
C26_OffsetWithinDataLength ==
    /\ (call.fn = "reader" /\ reader.phase = "ready")
          => 0 <= reader.offset /\ reader.offset <= reader.data_length
    /\ (FileLast("seek") /\ reader.phase = "ready")
          => /\ reader.last.ok <=> reader.last.off <= reader.data_length
             /\ reader.offset = IF reader.last.ok THEN reader.last.off ELSE reader.last.before
    /\ (FileLast("rewind") /\ reader.phase = "ready") => reader.offset = 0
    /\ (FileLast("File::seek") /\ reader.phase = "ready")
          => /\ reader.last.status \in {"Ok", "Err"}
             /\ reader.last.status = "Ok" => reader.last.value = Big(reader.offset)
             /\ reader.last.status = "Err"
                    => reader.last.kind = "InvalidInput" /\ reader.offset = reader.last.before

\* a File moved off the start and then sought forward by i64::MAX, which
\* lands on the data length
C26_Witness ==
    /\ FileLast("File::seek")
    /\ reader.phase = "ready"
    /\ reader.last.pos.from = "Current" /\ ~reader.last.pos.neg
    /\ reader.last.pos.abs = BSub(BigPow2(63), Big(1))
    /\ reader.last.status = "Ok"
    /\ reader.last.before > 0
    /\ reader.offset = reader.data_length

\* a call of Root::open that has returned
RootOpened == call.fn = "Root::open" /\ ret # None

\* the directory with every entry of type 0x80 replaced by an unused slot
AsUnused(dir) == [i \in 1..Len(dir) |-> IF dir[i] = "invalid" THEN "unused" ELSE dir[i]]

\* C27: in the walk of Root::open an entry whose first byte is 0x80 is
\* treated like an unused slot, skipped with the walk going on, and only an
\* entry of type 0x00 ends the walk; the match arms for the end of the
\* directory and for the invalid entry are never reached.
C27_InvalidEntrySkipped ==
    RootOpened
        => /\ ret = Open(RootImage([call EXCEPT !.dir = AsUnused(call.dir)]))
           /\ ret.status = "Panic" => ret.at # "not yet implemented"

\* the index of the FAT in use: 1 when ActiveFat is set on a volume of two
\* FATs, else 0
ActiveIndex(c) == IF c.volume_flags % 2 = 1 /\ c.number_of_fats = 2 THEN 1 ELSE 0

\* C28: Root::open loads the FAT of index 1 exactly when ActiveFat is set
\* and number_of_fats is 2, else the first one; a volume of two FATs with
\* ActiveFat clear is opened with its first FAT; the assertions of Fat::load
\* hold for every boot sector that passes the checks of Root::open.
C28_ActiveFatLoaded ==
    RootOpened
        => /\ ret.status # "Panic"
           /\ (call.number_of_fats = 2 /\ call.volume_flags % 2 = 0)
                  => ret # Err("InvalidNumberOfFats")
           /\ ret # Err("InvalidNumberOfFats")
                  => (ret = Err("InvalidFirstCluster") <=> ActiveIndex(call) \notin call.sound)

\* the bitmap entries of a directory, and the number of its up-case entries
BitmapEntries(dir) == SelectSeq(dir, LAMBDA k : k \in {"bitmap0", "bitmap1"})
UpcaseEntries(dir) == Len(SelectSeq(dir, LAMBDA k : k = "upcase"))

\* C29: Root::open succeeds only on a root directory with exactly one
\* up-case table entry and exactly as many bitmap entries as number_of_fats,
\* the k-th of them carrying index k; on any other directory it returns
\* InvalidNumberOfAllocationBitmaps, InvalidAllocationBitmap or
\* InvalidNumberOfUpcaseTables.
C29_BitmapAndUpcaseCounts ==
    (/\ RootOpened
     /\ \A i \in 1..Len(call.dir) : call.dir[i] # "invalid"
     /\ ret \notin {Err("InvalidNumberOfFats"), Err("InvalidFirstCluster")})
        => IF /\ UpcaseEntries(call.dir) = 1
              /\ BitmapEntries(call.dir)
                    = SubSeq(<<"bitmap0", "bitmap1">>, 1, call.number_of_fats)
           THEN ret.status = "Ok"
           ELSE /\ ret.status = "Err"
                /\ ret.kind \in {"InvalidNumberOfAllocationBitmaps",
                                 "InvalidAllocationBitmap", "InvalidNumberOfUpcaseTables"}

\* C30: a file set with a valid stream extension and secondary_count - 1 =
\* ceil(name_length / 15) file-name entries whose code units are well-formed
\* UTF-16 as a whole parses, and its name is the strict UTF-16 decoding of
\* the concatenated units, wherever the 15-unit boundaries fall;
\* InvalidFileName is returned only when the concatenation is not
\* well-formed.
C30_NameDecodedAsAWhole ==
    (/\ call.fn = "ParsedFileEntry::try_new" /\ ret # None
     /\ StreamExtensionValid(call.entries[1])
     /\ call.is_directory => call.entries[1].valid_data_length = call.entries[1].data_len
     /\ call.secondary_count - 1 = (Len(call.name) + 14) \div 15
     /\ call.name_flags = 0)
        => IF from_utf16(call.name).status = "Ok"
           THEN ret.status = "Ok" /\ ret.name = from_utf16(call.name).chars
           ELSE ret = Err("InvalidFileName")

====
